---- MODULE Spec2Model ----
(***************************************************************************)
(* Model of the request fan-out and cache layer of yahoo-finance-server:   *)
(* the multi-symbol route handlers (quote, history, info), the NodeCache   *)
(* instance they share, and the upstream provider whose calls settle in    *)
(* any order.                                                              *)
(*                                                                         *)
(* Strings are sequences of characters (one-character strings); the token  *)
(* "__proto__" stands for that nine-character name.  JavaScript values are *)
(* records with a tag field.  Time is in seconds.                          *)
(***************************************************************************)
EXTENDS Integers, Sequences, FiniteSets, TLC

VARIABLES
    CACHE_ENABLED,  \* config/cache: process.env.CACHE_ENABLED !== "false"
    CACHE_TTL,      \* config/cache: parseInt(process.env.CACHE_TTL) || 300
    workload,       \* the requests the clients of this run send
    mcpServer,      \* mcp/mcpServer: the server singleton and its transport slot
    CURRENT_LOG_LEVEL,  \* utils/logger: LOG_LEVELS[process.env.LOG_LEVEL] || LOG_LEVELS.info
    now,            \* the clock, Date.now() in seconds
    ticks,          \* number of clock advances so far
    cache,          \* NodeCache data: key -> [t: expiry, v: value]
    reqs            \* the HTTP requests: request id -> handler state

vars == <<CACHE_ENABLED, CACHE_TTL, workload, mcpServer, CURRENT_LOG_LEVEL, now, ticks, cache,
          reqs>>

----------------------------------------------------------------------------
(* Bounds *)

MaxReq == 2         \* number of HTTP requests in one behaviour
MaxTicks == 2       \* number of clock advances in one behaviour

Reqs == 1..MaxReq

----------------------------------------------------------------------------
(* JavaScript values *)

Undefined == [tag |-> "undefined"]
Null == [tag |-> "null"]
Val(id) == [tag |-> "val", id |-> id]
ErrObj(m) == [tag |-> "error", error |-> m]
Obj(props) == [tag |-> "object", props |-> props]
Arr(items) == [tag |-> "array", items |-> items]
Chart(q) == [tag |-> "chart", quotes |-> q]
Number(n) == [tag |-> "number", n |-> n]

EmptyProps == [n \in {} |-> Null]

\* JavaScript truthiness, as used by `if (cached)` and by `||`.
Truthy(v) == v.tag \notin {"undefined", "null"} /\ ~(v.tag = "number" /\ v.n = 0)

\* data[name] = val on a plain object: "__proto__" is the prototype accessor,
\* assigning an object to it adds no own property.
SetProp(props, name, val) ==
    IF name = <<"__proto__">>
    THEN props
    ELSE [n \in (DOMAIN props) \cup {name} |-> IF n = name THEN val ELSE props[n]]

\* JSON.stringify as done by res.json, read back by the client: an undefined
\* array element becomes null, an undefined property is left out.
ToJson(v) ==
    CASE v.tag = "array" ->
            Arr([i \in DOMAIN v.items |->
                    IF v.items[i].tag = "undefined" THEN Null ELSE v.items[i]])
      [] v.tag = "object" ->
            Obj([n \in {m \in DOMAIN v.props : v.props[m].tag # "undefined"} |->
                    v.props[n]])
      [] OTHER -> v

----------------------------------------------------------------------------
(* String helpers: String.prototype.split(",") and String.prototype.trim *)

RECURSIVE SplitAcc(_, _, _)
SplitAcc(s, cur, acc) ==
    IF s = <<>> THEN Append(acc, cur)
    ELSE IF Head(s) = ","
         THEN SplitAcc(Tail(s), <<>>, Append(acc, cur))
         ELSE SplitAcc(Tail(s), Append(cur, Head(s)), acc)

Split(s) == SplitAcc(s, <<>>, <<>>)

RECURSIVE TrimStart(_)
TrimStart(s) ==
    IF s # <<>> /\ Head(s) = " " THEN TrimStart(Tail(s)) ELSE s

RECURSIVE TrimEnd(_)
TrimEnd(s) ==
    IF s # <<>> /\ s[Len(s)] = " " THEN TrimEnd(SubSeq(s, 1, Len(s) - 1)) ELSE s

Trim(s) == TrimEnd(TrimStart(s))

\* symbols.split(",").map((s) => s.trim())
SymbolList(symbols) ==
    LET parts == Split(symbols) IN [i \in DOMAIN parts |-> Trim(parts[i])]

----------------------------------------------------------------------------
(* Configuration: config/cache *)

DEFAULT_TTL == 300

\* an unset environment variable (process.env.X === undefined)
NoEnv == <<"<undefined>">>

\* process.env.CACHE_ENABLED and process.env.CACHE_TTL as read at startup
EnvEnabledInputs == { NoEnv, <<"f", "a", "l", "s", "e">> }
EnvTtlInputs == { NoEnv, <<"2">> }

Digits == <<"0", "1", "2", "3", "4", "5", "6", "7", "8", "9">>
IsDigit(c) == \E d \in DOMAIN Digits : Digits[d] = c
DigitVal(c) == (CHOOSE d \in DOMAIN Digits : Digits[d] = c) - 1

RECURSIVE ParseDigits(_, _, _)
ParseDigits(s, seen, acc) ==
    IF s # <<>> /\ IsDigit(Head(s))
    THEN ParseDigits(Tail(s), TRUE, acc * 10 + DigitVal(Head(s)))
    ELSE [nan |-> ~seen, n |-> acc]

\* parseInt(s): leading blanks, an optional sign, then the leading digits;
\* NaN when there is no digit
ParseInt(s) ==
    LET t == TrimStart(s)
        neg == t # <<>> /\ Head(t) = "-"
        u == IF t # <<>> /\ Head(t) \in {"-", "+"} THEN Tail(t) ELSE t
        p == ParseDigits(u, FALSE, 0)
    IN  [nan |-> p.nan, n |-> IF neg THEN 0 - p.n ELSE p.n]

\* process.env.CACHE_ENABLED !== "false"
CacheEnabled(env) == env # <<"f", "a", "l", "s", "e">>

\* parseInt(process.env.CACHE_TTL) || 300: NaN and 0 are falsy
CacheTtl(env) ==
    LET p == ParseInt(env) IN IF p.nan \/ p.n = 0 THEN DEFAULT_TTL ELSE p.n

----------------------------------------------------------------------------
(* utils/logger: the log levels and the level in force *)

\* const LOG_LEVELS = { error: 0, warn: 1, info: 2, debug: 3 }
LOG_LEVELS == [error |-> 0, warn |-> 1, info |-> 2, debug |-> 3]

\* LOG_LEVELS[name]: the number of an own property, a function for a name
\* the object inherits from Object.prototype, undefined for any other name
LevelOf(name) ==
    IF name \in DOMAIN LOG_LEVELS
    THEN Number(LOG_LEVELS[name])
    ELSE IF name \in {"constructor", "toString"}
         THEN [tag |-> "function"]
         ELSE Undefined

\* process.env.LOG_LEVEL as read at startup
EnvLogLevelInputs ==
    { NoEnv, <<"error">>, <<"warn">>, <<"info">>, <<"debug">>, <<"verbose">>,
      <<"constructor">> }

\* LOG_LEVELS[process.env.LOG_LEVEL] || LOG_LEVELS.info
CurrentLogLevel(env) ==
    LET level == LevelOf(env[1])
    IN  IF Truthy(level) THEN level ELSE Number(LOG_LEVELS.info)

\* a <= b: false when an operand is no number (NaN)
LessOrEqual(a, b) == a.tag = "number" /\ b.tag = "number" /\ a.n <= b.n

----------------------------------------------------------------------------
(* The NodeCache instance: new NodeCache({ stdTTL: CACHE_TTL }) *)

\* variant: entries that never expire (a cache built without stdTTL)
LivetimeUnlimited(t, ttl) == 0

\* _wrap: the expiry of an entry written at time t with the standard TTL
Livetime(t, ttl) == IF ttl = 0 THEN 0 ELSE t + ttl

\* _check: an entry is expired once its expiry lies in the past
Expired(e, t) == e.t # 0 /\ e.t < t

\* cache.get(key): the stored value, undefined when absent or expired
CacheGet(store, key, t) ==
    IF key \in DOMAIN store /\ ~Expired(store[key], t)
    THEN store[key].v
    ELSE Undefined

\* cache.get(key) deletes the entry it finds expired (deleteOnExpire)
CacheAfterGet(store, key, t) ==
    IF key \in DOMAIN store /\ Expired(store[key], t)
    THEN [k \in (DOMAIN store) \ {key} |-> store[k]]
    ELSE store

\* variant: the store is flushed before the entry is written
CacheSetAlone(store, key, value, t, ttl) ==
    [k \in {key} |-> [t |-> Livetime(t, ttl), v |-> value]]

\* variant: an entry that is present and not expired is kept
CacheSetIfAbsent(store, key, value, t, ttl) ==
    IF key \in DOMAIN store /\ ~Expired(store[key], t)
    THEN store
    ELSE [k \in (DOMAIN store) \cup {key} |->
            IF k = key THEN [t |-> Livetime(t, ttl), v |-> value] ELSE store[k]]

\* cache.set(key, value): replaces the entry, expiry from the standard TTL
CacheSet(store, key, value, t, ttl) ==
    [k \in (DOMAIN store) \cup {key} |->
        IF k = key THEN [t |-> Livetime(t, ttl), v |-> value] ELSE store[k]]

EmptyCache == [k \in {} |-> [t |-> 0, v |-> Undefined]]

----------------------------------------------------------------------------
(* Request inputs *)

\* an absent query parameter (req.query.period === undefined)
NoParam == <<"<undefined>">>

Input(kind, symbols, period, interval) ==
    [kind |-> kind, symbols |-> symbols, period |-> period, interval |-> interval]

\* The requests to the multi-symbol endpoints: req.params.symbols is a
\* non-empty path segment, req.query.period and req.query.interval are optional.
FanOutInputs ==
    { Input("quote", <<"A", ",", "B">>, NoParam, NoParam),
      Input("quote", <<"A", ",", "A">>, NoParam, NoParam),
      Input("quote", <<"__proto__">>, NoParam, NoParam),
      Input("history", <<"A", ",", "B">>, NoParam, NoParam),
      Input("history", <<"A">>, <<"5d">>, NoParam),
      Input("info", <<"A", ",", "B">>, NoParam, NoParam) }

\* Requests whose key lists are written in different ways: with a blank before
\* the symbol, in another order, with the default period spelled out, with
\* blank keys only ("/quote/,"), with no key at all ("/quote/").
KeyInputs ==
    { { Input("quote", <<"A">>, NoParam, NoParam),
        Input("quote", <<" ", "A">>, NoParam, NoParam) },
      { Input("info", <<"A", ",", "B">>, NoParam, NoParam),
        Input("info", <<"B", ",", "A">>, NoParam, NoParam) },
      { Input("history", <<"A">>, NoParam, NoParam),
        Input("history", <<"A">>, <<"1y">>, NoParam) },
      { Input("quote", <<",">>, NoParam, NoParam) },
      { Input("quote", <<>>, NoParam, NoParam) } }

\* Express matches the path against "/quote/:symbols": the parameter is one
\* or more characters, so "/quote/" matches no route.
RouteMatches(symbols) == symbols # <<>>

\* variant: an absent parameter is used as it is
DefaultToNothing(p, d) == p

\* const { period = "1y", interval = "1d" } = req.query
DefaultTo(p, d) == IF p = NoParam THEN d ELSE p

QuoteKey(symbols) == <<"quote", ":">> \o symbols
HistoryKey(symbols, period, interval) ==
    <<"history", ":">> \o symbols \o <<":">> \o period \o <<":">> \o interval
InfoKey(symbols) == <<"info", ":">> \o symbols

\* the cacheKey constant of a request's handler
CacheKey(rq) ==
    CASE rq.kind = "quote" -> QuoteKey(rq.symbols)
      [] rq.kind = "history" ->
            HistoryKey(rq.symbols, DefaultTo(rq.period, <<"1y">>),
                       DefaultTo(rq.interval, <<"1d">>))
      [] rq.kind = "info" -> InfoKey(rq.symbols)

\* the switch on period of the history handler: the start of the window
DAY == 24 * 60 * 60
YEAR == 365 * DAY
Period1(period, t) ==
    CASE period = <<"1d">> -> t - DAY
      [] period = <<"5d">> -> t - 5 * DAY
      [] period = <<"1mo">> -> t - 30 * DAY
      [] period = <<"3mo">> -> t - 90 * DAY
      [] period = <<"6mo">> -> t - 180 * DAY
      [] period = <<"1y">> -> t - 365 * DAY
      [] period = <<"2y">> -> t - 2 * 365 * DAY
      [] period = <<"5y">> -> t - 5 * 365 * DAY
      [] period = <<"10y">> -> t - 10 * 365 * DAY
      [] period = <<"ytd">> -> t - (t % YEAR)
      [] period = <<"max">> -> 0
      [] OTHER -> t - 365 * DAY

----------------------------------------------------------------------------
(* The upstream provider (yahoo-finance2): each call is a promise that is  *)
(* pending until it is fulfilled with a value or rejected with an Error.   *)

\* The payloads are opaque to the handlers.  Every call yields data of its
\* own, named after the call (request r, position i), so that an aggregate
\* shows which calls it was built from.
QuoteValues(r, i) == { Val(<<r, i>>) }
ChartValues(r, i) == { Chart(Val(<<r, i>>)) }
Messages(r, i) == { <<"Not found", r, i>> }

ValuesOf(kind, r, i) ==
    IF kind = "history" THEN ChartValues(r, i) ELSE QuoteValues(r, i)

NoReason == [message |-> <<>>]

PendingCall(args) ==
    [status |-> "pending", value |-> Undefined, reason |-> NoReason, args |-> args]

\* variant: the calls are made one after the other, only the first is
\* started before the handler waits
QuoteCallsFirstOnly(symbolList) ==
    [i \in {1} |->
        PendingCall([symbol |-> Trim(symbolList[i]), opts |-> [tag |-> "none"]])]

\* variant: one call per distinct symbol
QuoteCallsDistinct(symbolList) ==
    LET first == SelectSeq([i \in DOMAIN symbolList |-> i],
                    LAMBDA i : \A j \in 1..(i - 1) : symbolList[j] # symbolList[i])
    IN  [k \in DOMAIN first |->
            PendingCall([symbol |-> Trim(symbolList[first[k]]),
                         opts |-> [tag |-> "none"]])]

\* the promises array built by symbolList.map(...)
QuoteCalls(symbolList) ==
    [i \in DOMAIN symbolList |->
        PendingCall([symbol |-> Trim(symbolList[i]), opts |-> [tag |-> "none"]])]

HistoryCalls(symbolList, period, interval, t) ==
    [i \in DOMAIN symbolList |->
        PendingCall([symbol |-> symbolList[i],
                     opts |-> [tag |-> "chart", period1 |-> Period1(period, t),
                               period2 |-> t, interval |-> interval]])]

InfoCalls(symbolList) ==
    [i \in DOMAIN symbolList |->
        PendingCall([symbol |-> symbolList[i], opts |-> [tag |-> "modules"]])]

----------------------------------------------------------------------------
(* The aggregation done by the handlers once the join has resolved *)

\* variant: the join resolves as soon as one promise has settled
AnySettled(calls) == \E i \in DOMAIN calls : calls[i].status # "pending"

\* variant: the handler waits for its first promise only
FirstSettled(calls) == calls[1].status # "pending"

\* Promise.allSettled(promises) resolves once no promise is pending
AllSettled(calls) == \A i \in DOMAIN calls : calls[i].status # "pending"

\* variant: a join that rejects when one of its promises does (Promise.all)
JoinRejectedByAny(calls) == \E i \in DOMAIN calls : calls[i].status = "rejected"

\* Promise.allSettled never rejects, whatever its promises do
JoinRejected(calls) == FALSE

\* variant: the error marker names no failure
QuoteOutcomeNoMessage(result) ==
    IF result.status = "fulfilled" THEN result.value ELSE ErrObj(<<>>)

\* quote: data[symbol] = result.value, or { error: result.reason.message }
QuoteOutcome(result) ==
    IF result.status = "fulfilled"
    THEN result.value
    ELSE ErrObj(result.reason.message)

\* history: data.push(result.value.quotes), or data.push(null)
HistoryOutcome(result) ==
    IF result.status = "fulfilled" THEN result.value.quotes ELSE Null

\* info: data.push(result.value), or data.push(null)
InfoOutcome(result) ==
    IF result.status = "fulfilled" THEN result.value ELSE Null

\* results.forEach((result, index) => ...) over const data = {}
RECURSIVE QuoteFold(_, _, _, _)
QuoteFold(symbolList, results, index, props) ==
    IF index > Len(results)
    THEN props
    ELSE QuoteFold(symbolList, results, index + 1,
                   SetProp(props, symbolList[index], QuoteOutcome(results[index])))

QuoteData(symbolList, results) ==
    Obj(QuoteFold(symbolList, results, 1, EmptyProps))

\* variant: only the fulfilled calls are pushed
HistoryDataSkipFailed(results) ==
    LET ok == SelectSeq(results, LAMBDA c : c.status = "fulfilled")
    IN  Arr([i \in DOMAIN ok |-> HistoryOutcome(ok[i])])

\* variant: data.unshift instead of data.push
HistoryDataReversed(results) ==
    Arr([i \in DOMAIN results |->
            HistoryOutcome(results[Len(results) + 1 - i])])

\* variant: the data array is shared by the requests and keeps what the
\* requests before pushed
HistoryDataShared(results) ==
    LET prev == IF DOMAIN cache = {}
                THEN <<>>
                ELSE cache[CHOOSE k \in DOMAIN cache : TRUE].v.items
    IN  Arr(prev \o [i \in DOMAIN results |-> HistoryOutcome(results[i])])

\* results.forEach((result, index) => ...) over const data = []
HistoryData(results) == Arr([i \in DOMAIN results |-> HistoryOutcome(results[i])])
InfoData(results) == Arr([i \in DOMAIN results |-> InfoOutcome(results[i])])

\* variant: the value looked up is never used
HitNever(cached) == FALSE

\* if (cached) return res.json(cached)
Hit(cached) == Truthy(cached)

\* variant: the aggregate is stored whatever CACHE_ENABLED says
StoreAlways(enabled, store, key, data, t, ttl) ==
    CacheSet(store, key, data, t, ttl)

\* variant: an aggregate that holds a failure is not stored
StoreIfNoFailure(enabled, store, key, data, t, ttl) ==
    LET failed(v) == v.tag \in {"null", "error"}
        clean == CASE data.tag = "array" ->
                        \A i \in DOMAIN data.items : ~failed(data.items[i])
                   [] data.tag = "object" ->
                        \A n \in DOMAIN data.props : ~failed(data.props[n])
                   [] OTHER -> TRUE
    IN  IF enabled /\ clean THEN CacheSet(store, key, data, t, ttl) ELSE store

\* if (CACHE_ENABLED) cache.set(cacheKey, data)
StoreAfter(enabled, store, key, data, t, ttl) ==
    IF enabled THEN CacheSet(store, key, data, t, ttl) ELSE store

----------------------------------------------------------------------------
(* Requests *)

NoTime == 0 - 1
NoResponse == [status |-> 0, body |-> Undefined]

NewReq(kind, symbols, period, interval) ==
    [ st |-> "idle", kind |-> kind, symbols |-> symbols,
      period |-> period, interval |-> interval,
      cached |-> Undefined,     \* const cached = cache.get(cacheKey)
      calls |-> <<>>,           \* const promises = symbolList.map(...)
      order |-> <<>>,           \* positions of calls, in the order they settled
      res |-> NoResponse,       \* what res.json / res.status().json sent
      wroteAt |-> NoTime ]      \* when the handler wrote the cache

IdleReq == NewReq("none", <<>>, NoParam, NoParam)

\* the MCP server when no MCP request is sent
NoServer == [sdk |-> "none", transport |-> 0]

Init ==
    /\ \E e \in EnvEnabledInputs : CACHE_ENABLED = CacheEnabled(e)
    /\ \E e \in EnvTtlInputs : CACHE_TTL = CacheTtl(e)
    /\ \E x \in FanOutInputs : workload = {x}
    /\ mcpServer = NoServer
    /\ CURRENT_LOG_LEVEL = CurrentLogLevel(NoEnv)
    /\ now = 0
    /\ ticks = 0
    /\ cache = EmptyCache
    /\ reqs = [r \in Reqs |-> IdleReq]

\* variant: a hit writes the entry anew, with a new expiry
BeginRefreshing(r, rq, promises) ==
    LET key == CacheKey(rq)
        cached == IF CACHE_ENABLED THEN CacheGet(cache, key, now) ELSE Undefined
        started == [rq EXCEPT !.cached = cached]
    IN  /\ reqs[r].st = "idle"
        /\ Input(rq.kind, rq.symbols, rq.period, rq.interval) \in workload
        /\ RouteMatches(rq.symbols)
        /\ \A q \in Reqs : q < r => reqs[q].st # "idle"
        /\ cache' = IF CACHE_ENABLED
                    THEN IF Hit(cached)
                         THEN CacheSet(cache, key, cached, now, CACHE_TTL)
                         ELSE CacheAfterGet(cache, key, now)
                    ELSE cache
        /\ reqs' = [reqs EXCEPT ![r] =
                IF CACHE_ENABLED /\ Hit(cached)
                THEN [started EXCEPT !.st = "done",
                        !.res = [status |-> 200, body |-> ToJson(cached)]]
                ELSE [started EXCEPT !.st = "await", !.calls = promises]]
        /\ UNCHANGED <<CACHE_ENABLED, CACHE_TTL, CURRENT_LOG_LEVEL, workload, mcpServer, now, ticks>>

\* The synchronous head of a handler: derive the key, look the cache up,
\* answer from it on a hit, otherwise start one provider call per symbol.
Begin(r, rq, promises) ==
    LET key == CacheKey(rq)
        cached == IF CACHE_ENABLED THEN CacheGet(cache, key, now) ELSE Undefined
        started == [rq EXCEPT !.cached = cached]
    IN  /\ reqs[r].st = "idle"
        /\ Input(rq.kind, rq.symbols, rq.period, rq.interval) \in workload
        /\ RouteMatches(rq.symbols)
        /\ \A q \in Reqs : q < r => reqs[q].st # "idle"
        /\ cache' = IF CACHE_ENABLED THEN CacheAfterGet(cache, key, now) ELSE cache
        /\ reqs' = [reqs EXCEPT ![r] =
                IF CACHE_ENABLED /\ Hit(cached)
                THEN [started EXCEPT !.st = "done",
                        !.res = [status |-> 200, body |-> ToJson(cached)]]
                ELSE [started EXCEPT !.st = "await", !.calls = promises]]
        /\ UNCHANGED <<CACHE_ENABLED, CACHE_TTL, CURRENT_LOG_LEVEL, workload, mcpServer, now, ticks>>

\* router.get("/quote/:symbols") up to await Promise.allSettled(promises)
GetQuote(r, symbols) ==
    Begin(r, NewReq("quote", symbols, NoParam, NoParam),
          QuoteCalls(SymbolList(symbols)))

\* router.get("/history/:symbols") up to await Promise.allSettled(promises)
GetHistory(r, symbols, period, interval) ==
    Begin(r, NewReq("history", symbols, period, interval),
          HistoryCalls(SymbolList(symbols), DefaultTo(period, <<"1y">>),
                       DefaultTo(interval, <<"1d">>), now))

\* router.get("/info/:symbols") up to await Promise.allSettled(promises)
GetInfo(r, symbols) ==
    Begin(r, NewReq("info", symbols, NoParam, NoParam),
          InfoCalls(SymbolList(symbols)))

\* the provider fulfils call i of request r with value v
ProviderResolve(r, i, v) ==
    /\ reqs[r].st = "await"
    /\ i \in DOMAIN reqs[r].calls
    /\ reqs[r].calls[i].status = "pending"
    /\ v \in ValuesOf(reqs[r].kind, r, i)
    /\ reqs' = [reqs EXCEPT ![r].calls[i].status = "fulfilled",
                            ![r].calls[i].value = v,
                            ![r].order = Append(@, i)]
    /\ UNCHANGED <<CACHE_ENABLED, CACHE_TTL, CURRENT_LOG_LEVEL, workload, mcpServer, now, ticks, cache>>

\* the provider rejects call i of request r with an Error carrying message m
ProviderReject(r, i, m) ==
    /\ reqs[r].st = "await"
    /\ i \in DOMAIN reqs[r].calls
    /\ reqs[r].calls[i].status = "pending"
    /\ m \in Messages(r, i)
    /\ reqs' = [reqs EXCEPT ![r].calls[i].status = "rejected",
                            ![r].calls[i].reason = [message |-> m],
                            ![r].order = Append(@, i)]
    /\ UNCHANGED <<CACHE_ENABLED, CACHE_TTL, CURRENT_LOG_LEVEL, workload, mcpServer, now, ticks, cache>>

\* the aggregate a handler builds from its results
DataOf(rq) ==
    CASE rq.kind = "quote" -> QuoteData(SymbolList(rq.symbols), rq.calls)
      [] rq.kind = "history" -> HistoryData(rq.calls)
      [] rq.kind = "info" -> InfoData(rq.calls)

FirstRejected(calls) ==
    calls[CHOOSE i \in DOMAIN calls :
            /\ calls[i].status = "rejected"
            /\ \A j \in 1..(i - 1) : calls[j].status # "rejected"]

\* The rest of a handler, from the join to the response: inside try, build
\* the aggregate, store it, send it; the catch clause answers 500.
Resume(r, kind) ==
    LET rq == reqs[r]
        data == DataOf(rq)
    IN  /\ rq.st = "await"
        /\ rq.kind = kind
        /\ AllSettled(rq.calls)
        /\ IF JoinRejected(rq.calls)
           THEN /\ reqs' = [reqs EXCEPT ![r].st = "done",
                        ![r].res = [status |-> 500,
                                    body |-> ErrObj(FirstRejected(rq.calls).reason.message)]]
                /\ cache' = cache
           ELSE /\ reqs' = [reqs EXCEPT ![r].st = "done",
                        ![r].res = [status |-> 200, body |-> ToJson(data)],
                        ![r].wroteAt = IF CACHE_ENABLED THEN now ELSE NoTime]
                /\ cache' = StoreAfter(CACHE_ENABLED, cache, CacheKey(rq), data,
                                       now, CACHE_TTL)
        /\ UNCHANGED <<CACHE_ENABLED, CACHE_TTL, CURRENT_LOG_LEVEL, workload, mcpServer, now, ticks>>

QuoteResume(r) == Resume(r, "quote")
HistoryResume(r) == Resume(r, "history")
InfoResume(r) == Resume(r, "info")

\* time passes
Tick(d) ==
    /\ ticks < MaxTicks
    /\ now' = now + d
    /\ ticks' = ticks + 1
    /\ UNCHANGED <<CACHE_ENABLED, CACHE_TTL, CURRENT_LOG_LEVEL, workload, mcpServer, cache, reqs>>

\* NodeCache's periodic _checkData: every expired entry is deleted
CheckData ==
    /\ \E k \in DOMAIN cache : Expired(cache[k], now)
    /\ cache' = [k \in { j \in DOMAIN cache : ~Expired(cache[j], now) } |-> cache[k]]
    /\ UNCHANGED <<CACHE_ENABLED, CACHE_TTL, CURRENT_LOG_LEVEL, workload, mcpServer, now, ticks, reqs>>

Next ==
    \/ \E r \in Reqs, x \in workload : GetQuote(r, x.symbols)
    \/ \E r \in Reqs, x \in workload : GetHistory(r, x.symbols, x.period, x.interval)
    \/ \E r \in Reqs, x \in workload : GetInfo(r, x.symbols)
    \/ \E r \in Reqs : \E i \in DOMAIN reqs[r].calls :
            \E v \in ValuesOf(reqs[r].kind, r, i) : ProviderResolve(r, i, v)
    \/ \E r \in Reqs : \E i \in DOMAIN reqs[r].calls :
            \E m \in Messages(r, i) : ProviderReject(r, i, m)
    \/ \E r \in Reqs : QuoteResume(r)
    \/ \E r \in Reqs : HistoryResume(r)
    \/ \E r \in Reqs : InfoResume(r)
    \/ \E d \in {1, CACHE_TTL} : Tick(d)
    \/ CheckData

Spec == Init /\ [][Next]_vars

\* The continuation of a handler is a job of the event loop: once the join
\* has resolved, the handler is resumed.
Resumed == \E r \in Reqs : QuoteResume(r) \/ HistoryResume(r) \/ InfoResume(r)

\* the handlers and the provider alone, the clock standing still
NextJoin ==
    \/ \E r \in Reqs, x \in workload : GetQuote(r, x.symbols)
    \/ \E r \in Reqs, x \in workload : GetHistory(r, x.symbols, x.period, x.interval)
    \/ \E r \in Reqs, x \in workload : GetInfo(r, x.symbols)
    \/ \E r \in Reqs : \E i \in DOMAIN reqs[r].calls :
            \E v \in ValuesOf(reqs[r].kind, r, i) : ProviderResolve(r, i, v)
    \/ \E r \in Reqs : \E i \in DOMAIN reqs[r].calls :
            \E m \in Messages(r, i) : ProviderReject(r, i, m)
    \/ Resumed

\* with the clock standing still no entry expires, whatever the TTL
InitJoin ==
    /\ \E e \in EnvEnabledInputs : CACHE_ENABLED = CacheEnabled(e)
    /\ CACHE_TTL = CacheTtl(NoEnv)
    /\ \E x \in FanOutInputs : workload = {x}
    /\ mcpServer = NoServer
    /\ CURRENT_LOG_LEVEL = CurrentLogLevel(NoEnv)
    /\ now = 0
    /\ ticks = 0
    /\ cache = EmptyCache
    /\ reqs = [r \in Reqs |-> IdleReq]

SpecJoin == InitJoin /\ [][NextJoin]_vars /\ WF_vars(Resumed)

----------------------------------------------------------------------------
(* The same handlers under requests that differ in how the keys are written *)

InitKeys ==
    /\ \E e \in EnvEnabledInputs : CACHE_ENABLED = CacheEnabled(e)
    /\ \E e \in EnvTtlInputs : CACHE_TTL = CacheTtl(e)
    /\ workload \in KeyInputs
    /\ mcpServer = NoServer
    /\ CURRENT_LOG_LEVEL = CurrentLogLevel(NoEnv)
    /\ now = 0
    /\ ticks = 0
    /\ cache = EmptyCache
    /\ reqs = [r \in Reqs |-> IdleReq]

\* a request that matches no route: Express answers 404, no handler runs
NoRoute(r, x) ==
    /\ reqs[r].st = "idle"
    /\ x \in workload
    /\ \A q \in Reqs : q < r => reqs[q].st # "idle"
    /\ ~RouteMatches(x.symbols)
    /\ reqs' = [reqs EXCEPT ![r] =
            [NewReq(x.kind, x.symbols, x.period, x.interval) EXCEPT
                !.st = "unrouted",
                !.res = [status |-> 404, body |-> Undefined]]]
    /\ UNCHANGED <<CACHE_ENABLED, CACHE_TTL, CURRENT_LOG_LEVEL, workload, mcpServer, now, ticks, cache>>

NextKeys ==
    \/ Next
    \/ \E r \in Reqs, x \in workload : NoRoute(r, x)

SpecKeys == InitKeys /\ [][NextKeys]_vars

----------------------------------------------------------------------------
(* The same handlers under requests whose parameters hold the separator    *)
(* of the cache keys, and under requests to different endpoints            *)

SeparatorInputs ==
    { { Input("history", <<"A">>, <<"1y", ":", "1d">>, <<"1d">>),
        Input("history", <<"A">>, <<"1y">>, <<"1d", ":", "1d">>) },
      { Input("quote", <<"A">>, NoParam, NoParam),
        Input("info", <<"A">>, NoParam, NoParam) } }

InitSeparators ==
    /\ \E e \in EnvEnabledInputs : CACHE_ENABLED = CacheEnabled(e)
    /\ \E e \in EnvTtlInputs : CACHE_TTL = CacheTtl(e)
    /\ workload \in SeparatorInputs
    /\ mcpServer = NoServer
    /\ CURRENT_LOG_LEVEL = CurrentLogLevel(NoEnv)
    /\ now = 0
    /\ ticks = 0
    /\ cache = EmptyCache
    /\ reqs = [r \in Reqs |-> IdleReq]

SpecSeparators == InitSeparators /\ [][Next]_vars

----------------------------------------------------------------------------
(* The quote handler under settings of CACHE_TTL of every sort *)

\* process.env.CACHE_TTL: unset, a number, no number, zero, a negative
\* number, empty, a number followed by letters
TtlSettings ==
    { NoEnv, <<"2">>, <<"x">>, <<"0">>, <<"-", "1">>, <<>>, <<"2", "x">> }

\* a run of the server under a setting of CACHE_TTL
TtlInput(env) == [kind |-> "config", CACHE_TTL |-> env]

InitTtl ==
    /\ CACHE_ENABLED = CacheEnabled(NoEnv)
    /\ \E e \in TtlSettings :
            /\ CACHE_TTL = CacheTtl(e)
            /\ workload = {TtlInput(e), Input("quote", <<"A">>, NoParam, NoParam)}
    /\ mcpServer = NoServer
    /\ CURRENT_LOG_LEVEL = CurrentLogLevel(NoEnv)
    /\ now = 0
    /\ ticks = 0
    /\ cache = EmptyCache
    /\ reqs = [r \in Reqs |-> IdleReq]

NextTtl ==
    \/ \E r \in Reqs, x \in workload : x.kind = "quote" /\ GetQuote(r, x.symbols)
    \/ \E r \in Reqs : \E i \in DOMAIN reqs[r].calls :
            \E v \in ValuesOf(reqs[r].kind, r, i) : ProviderResolve(r, i, v)
    \/ \E r \in Reqs : \E i \in DOMAIN reqs[r].calls :
            \E m \in Messages(r, i) : ProviderReject(r, i, m)
    \/ \E r \in Reqs : QuoteResume(r)
    \/ \E d \in {1, CACHE_TTL} : d > 0 /\ Tick(d)
    \/ CheckData

SpecTtl == InitTtl /\ [][NextTtl]_vars

----------------------------------------------------------------------------
(* The history handler under requests that leave period and interval out   *)
(* and requests that spell the defaults out                                *)

DefaultInputs ==
    { { Input("history", <<"A", ",", "B">>, NoParam, NoParam),
        Input("history", <<"A", ",", "B">>, <<"1y">>, <<"1d">>) },
      { Input("history", <<"A">>, NoParam, NoParam),
        Input("history", <<"A">>, <<"1y">>, <<"1d">>) } }

InitDefaults ==
    /\ \E e \in EnvEnabledInputs : CACHE_ENABLED = CacheEnabled(e)
    /\ \E e \in EnvTtlInputs : CACHE_TTL = CacheTtl(e)
    /\ workload \in DefaultInputs
    /\ mcpServer = NoServer
    /\ CURRENT_LOG_LEVEL = CurrentLogLevel(NoEnv)
    /\ now = 0
    /\ ticks = 0
    /\ cache = EmptyCache
    /\ reqs = [r \in Reqs |-> IdleReq]

\* the clock moves in the behaviours whose requests name one symbol, and
\* stands still in those whose requests name two
OneSymbol == \A x \in workload : Len(SymbolList(x.symbols)) = 1

NextDefaults ==
    \/ \E r \in Reqs, x \in workload : GetHistory(r, x.symbols, x.period, x.interval)
    \/ \E r \in Reqs : \E i \in DOMAIN reqs[r].calls :
            \E v \in ValuesOf(reqs[r].kind, r, i) : ProviderResolve(r, i, v)
    \/ \E r \in Reqs : \E i \in DOMAIN reqs[r].calls :
            \E m \in Messages(r, i) : ProviderReject(r, i, m)
    \/ \E r \in Reqs : HistoryResume(r)
    \/ OneSymbol /\ \E d \in {1, CACHE_TTL} : Tick(d)
    \/ OneSymbol /\ CheckData

SpecDefaults == InitDefaults /\ [][NextDefaults]_vars

----------------------------------------------------------------------------
(* The history handler under chart results that hold no quotes, the clock  *)
(* standing still                                                          *)

NoQuotesInputs ==
    { Input("history", <<"A", ",", "B">>, NoParam, NoParam),
      Input("history", <<"A">>, <<"5d">>, NoParam) }

InitNoQuotes ==
    /\ \E e \in EnvEnabledInputs : CACHE_ENABLED = CacheEnabled(e)
    /\ CACHE_TTL = CacheTtl(NoEnv)
    /\ \E x \in NoQuotesInputs : workload = {x}
    /\ mcpServer = NoServer
    /\ CURRENT_LOG_LEVEL = CurrentLogLevel(NoEnv)
    /\ now = 0
    /\ ticks = 0
    /\ cache = EmptyCache
    /\ reqs = [r \in Reqs |-> IdleReq]

\* the provider fulfils chart call i of request r with a result that has no
\* quotes property (result.value.quotes is undefined)
ProviderResolveNoQuotes(r, i) ==
    /\ reqs[r].st = "await"
    /\ reqs[r].kind = "history"
    /\ i \in DOMAIN reqs[r].calls
    /\ reqs[r].calls[i].status = "pending"
    /\ reqs' = [reqs EXCEPT ![r].calls[i].status = "fulfilled",
                            ![r].calls[i].value = Chart(Undefined),
                            ![r].order = Append(@, i)]
    /\ UNCHANGED <<CACHE_ENABLED, CACHE_TTL, CURRENT_LOG_LEVEL, workload, mcpServer, now, ticks, cache>>

NextNoQuotes ==
    \/ \E r \in Reqs, x \in workload : GetHistory(r, x.symbols, x.period, x.interval)
    \/ \E r \in Reqs : \E i \in DOMAIN reqs[r].calls :
            \E v \in ValuesOf(reqs[r].kind, r, i) : ProviderResolve(r, i, v)
    \/ \E r \in Reqs : \E i \in DOMAIN reqs[r].calls : ProviderResolveNoQuotes(r, i)
    \/ \E r \in Reqs : \E i \in DOMAIN reqs[r].calls :
            \E m \in Messages(r, i) : ProviderReject(r, i, m)
    \/ \E r \in Reqs : HistoryResume(r)

SpecNoQuotes == InitNoQuotes /\ [][NextNoQuotes]_vars

----------------------------------------------------------------------------
(* The quote handler under requests that name a symbol more than once *)

DuplicateInputs ==
    { Input("quote", <<"A", ",", "A">>, NoParam, NoParam),
      Input("quote", <<"A", ",", " ", "A">>, NoParam, NoParam),
      Input("quote", <<"__proto__", ",", "__proto__">>, NoParam, NoParam) }

InitDuplicates ==
    /\ \E e \in EnvEnabledInputs : CACHE_ENABLED = CacheEnabled(e)
    /\ \E e \in EnvTtlInputs : CACHE_TTL = CacheTtl(e)
    /\ \E x \in DuplicateInputs : workload = {x}
    /\ mcpServer = NoServer
    /\ CURRENT_LOG_LEVEL = CurrentLogLevel(NoEnv)
    /\ now = 0
    /\ ticks = 0
    /\ cache = EmptyCache
    /\ reqs = [r \in Reqs |-> IdleReq]

NextDuplicates ==
    \/ \E r \in Reqs, x \in workload : GetQuote(r, x.symbols)
    \/ \E r \in Reqs : \E i \in DOMAIN reqs[r].calls :
            \E v \in ValuesOf(reqs[r].kind, r, i) : ProviderResolve(r, i, v)
    \/ \E r \in Reqs : \E i \in DOMAIN reqs[r].calls :
            \E m \in Messages(r, i) : ProviderReject(r, i, m)
    \/ \E r \in Reqs : QuoteResume(r)
    \/ \E d \in {1, CACHE_TTL} : Tick(d)
    \/ CheckData

SpecDuplicates == InitDuplicates /\ [][NextDuplicates]_vars

----------------------------------------------------------------------------
(* The single-item handlers: search, trending, recommendations, insights   *)
(* and screener of the routes module, and the screener and news routes of  *)
(* routes/screener and routes/news.  Each makes one provider call.         *)

ItemInput(kind, param, count) == [kind |-> kind, param |-> param, count |-> count]

\* req.params (query, region, symbol, type) and req.query.count
ItemInputs ==
    { ItemInput("search", <<"A">>, NoParam),
      ItemInput("trending", <<"U", "S">>, NoParam),
      ItemInput("recommendations", <<"a">>, NoParam),
      ItemInput("insights", <<"a">>, NoParam),
      ItemInput("screener", <<"most_shorted">>, NoParam),
      ItemInput("screener", <<"day_gainers">>, <<"2">>),
      ItemInput("routes/screener", <<"day_losers">>, <<"2">>),
      ItemInput("routes/screener", <<"most_shorted">>, NoParam),
      ItemInput("routes/news", <<>>, NoParam),
      ItemInput("routes/news", <<>>, <<"1", "0", "0">>) }

\* variant: the symbol is used as it was written
KeepCase(s) == s

\* String.prototype.toUpperCase, on the letters the inputs use
ToUpperCase(s) ==
    [i \in DOMAIN s |-> CASE s[i] = "a" -> "A"
                          [] s[i] = "b" -> "B"
                          [] OTHER -> s[i]]

\* the decimal digits of a number, as `${count}` writes it
RECURSIVE NatToStr(_)
NatToStr(n) ==
    IF n < 10
    THEN <<Digits[n + 1]>>
    ELSE NatToStr(n \div 10) \o <<Digits[(n % 10) + 1]>>

IntToStr(n) == IF n < 0 THEN <<"-">> \o NatToStr(0 - n) ELSE NatToStr(n)

\* parseInt(req.query.count) || d
CountOr(count, d) ==
    LET p == ParseInt(count) IN IF p.nan \/ p.n = 0 THEN d ELSE p.n

DEFAULT_SCREENER_COUNT == 25
DEFAULT_NEWS_COUNT == 10
MAX_SCREENER_COUNT == 100

\* const count = parseInt(req.query.count) || 25, || 10 for the news
CountOf(rq) ==
    IF rq.kind = "routes/news"
    THEN CountOr(rq.count, DEFAULT_NEWS_COUNT)
    ELSE CountOr(rq.count, DEFAULT_SCREENER_COUNT)

SearchKey(query) == <<"search", ":">> \o query
TrendingKey(region) == <<"trending", ":">> \o region
RecommendationsKey(symbol) == <<"recommendations", ":">> \o symbol
InsightsKey(symbol) == <<"insights", ":">> \o symbol
ScreenerKey(type, count) == <<"screener", ":">> \o type \o <<":">> \o IntToStr(count)
NewsKey(count) == <<"news_general", ":">> \o IntToStr(count)

\* const region = req.params.region || "US"
RegionOf(region) == IF region = <<>> THEN <<"U", "S">> ELSE region

\* the cacheKey constant of a single-item handler
ItemKey(rq) ==
    CASE rq.kind = "search" -> SearchKey(rq.param)
      [] rq.kind = "trending" -> TrendingKey(RegionOf(rq.param))
      [] rq.kind = "recommendations" -> RecommendationsKey(ToUpperCase(rq.param))
      [] rq.kind = "insights" -> InsightsKey(ToUpperCase(rq.param))
      [] rq.kind = "screener" -> ScreenerKey(rq.param, CountOf(rq))
      [] rq.kind = "routes/screener" -> ScreenerKey(rq.param, CountOf(rq))
      [] rq.kind = "routes/news" -> NewsKey(CountOf(rq))

\* variant: the types of the routes module, most_shorted included
validTypesWithShorted ==
    << <<"day_gainers">>, <<"day_losers">>, <<"most_actives">>, <<"most_shorted">> >>

\* routes/screener: const validTypes = ["day_gainers", "day_losers", "most_actives"]
validTypes == << <<"day_gainers">>, <<"day_losers">>, <<"most_actives">> >>

\* validTypes.includes(type)
Includes(list, x) == \E i \in DOMAIN list : list[i] = x

\* routes module: the switch on type of the screener handler
ScrIds(type) ==
    CASE type = <<"day_gainers">> -> <<"day_gainers">>
      [] type = <<"day_losers">> -> <<"day_losers">>
      [] type = <<"most_actives">> -> <<"most_actives">>
      [] type = <<"most_shorted">> -> <<"most_shorted_stocks">>
      [] OTHER -> type

\* the arguments of the provider call of a single-item handler
ItemArgs(rq) ==
    CASE rq.kind = "search" -> [fn |-> "search", arg |-> rq.param, count |-> 0]
      [] rq.kind = "trending" ->
            [fn |-> "trendingSymbols", arg |-> RegionOf(rq.param), count |-> 0]
      [] rq.kind = "recommendations" ->
            [fn |-> "recommendationsBySymbol", arg |-> ToUpperCase(rq.param), count |-> 0]
      [] rq.kind = "insights" ->
            [fn |-> "insights", arg |-> ToUpperCase(rq.param), count |-> 0]
      [] rq.kind = "screener" ->
            [fn |-> "screener", arg |-> ScrIds(rq.param), count |-> CountOf(rq)]
      [] rq.kind = "routes/screener" ->
            [fn |-> "screener", arg |-> rq.param, count |-> 0]
      [] rq.kind = "routes/news" ->
            [fn |-> "search", arg |-> <<>>, count |-> CountOf(rq)]

\* The results of the provider.  A screener result holds quotes, or none; a
\* search for news holds at most newsCount articles, or no news at all.
ScreenerQuotes == 3
ScreenerResult(r, quotes) == [tag |-> "screener", id |-> r, quotes |-> quotes]
SearchResult(r, news) == [tag |-> "search", id |-> r, news |-> news]
Article(r, i) == [uuid |-> <<r, i>>, title |-> <<"title", r, i>>,
                  providerPublishTime |-> i]

ItemValues(rq, r) ==
    CASE rq.kind \in {"screener", "routes/screener"} ->
            { ScreenerResult(r, Undefined),
              ScreenerResult(r, Arr([i \in 1..ScreenerQuotes |-> Val(<<r, i>>)])) }
      [] rq.kind = "routes/news" ->
            { SearchResult(r, Undefined) } \cup
            { SearchResult(r, Arr([i \in 1..n |-> Article(r, i)])) :
                n \in {0, CountOf(rq)} \cap Nat }
      [] OTHER -> { Val(<<r, 1>>) }

\* Array.prototype.slice(0, end)
Slice(items, end) ==
    LET last == IF end >= 0
                THEN IF end < Len(items) THEN end ELSE Len(items)
                ELSE IF Len(items) + end > 0 THEN Len(items) + end ELSE 0
    IN  SubSeq(items, 1, last)

Min(a, b) == IF a < b THEN a ELSE b

\* routes/screener: { ...result, quotes: (result.quotes || []).slice(0, Math.min(count, 100)) }
SlicedResult(result, count) ==
    LET quotes == IF Truthy(result.quotes) THEN result.quotes.items ELSE <<>>
    IN  [result EXCEPT
            !.quotes = Arr(Slice(quotes, Min(count, MAX_SCREENER_COUNT)))]

\* routes/news: (result.news || []).map((article) => ({ title: ..., ... }))
NewsArticles(result) ==
    LET news == IF Truthy(result.news) THEN result.news.items ELSE <<>>
    IN  [i \in DOMAIN news |->
            [title |-> news[i].title,
             publishedAt |-> news[i].providerPublishTime]]

\* variant: hasNews tells whether the result holds a news list
NewsResponseBodyByPresence(result) ==
    LET newsArticles == NewsArticles(result)
    IN  [tag |-> "news",
         count |-> Len(newsArticles),
         news |-> Arr(newsArticles),
         message |-> IF Len(newsArticles) > 0
                     THEN <<"Found ">> \o IntToStr(Len(newsArticles))
                            \o <<" general market news articles">>
                     ELSE <<"No recent general market news found.">>,
         dataAvailable |-> [hasNews |-> Truthy(result.news)]]

\* routes/news: const response = { count, news, message, dataAvailable }
NewsResponseBody(result) ==
    LET newsArticles == NewsArticles(result)
    IN  [tag |-> "news",
         count |-> Len(newsArticles),
         news |-> Arr(newsArticles),
         message |-> IF Len(newsArticles) > 0
                     THEN <<"Found ">> \o IntToStr(Len(newsArticles))
                            \o <<" general market news articles">>
                     ELSE <<"No recent general market news found.">>,
         dataAvailable |-> [hasNews |-> Len(newsArticles) > 0]]

\* what a single-item handler answers with and stores once its call succeeded
ItemResponse(rq, result) ==
    CASE rq.kind = "routes/screener" -> SlicedResult(result, CountOf(rq))
      [] rq.kind = "routes/news" -> NewsResponseBody(result)
      [] OTHER -> result

\* variant: the error is swallowed and an empty answer is sent
CaughtAsEmpty(err) == [status |-> 200, body |-> Null]

\* catch (err) { res.status(500).json({ error: err.message }) }
Caught(err) == [status |-> 500, body |-> ErrObj(err.message)]

\* routes/screener: res.status(400).json({ error: `Invalid screener type: ...` })
InvalidType(type) ==
    [status |-> 400,
     body |-> ErrObj(<<"Invalid screener type: ">> \o type
                        \o <<". Valid types are: ", "day_gainers", ", ",
                             "day_losers", ", ", "most_actives">>)]

ItemReq(kind, param, count) ==
    [ st |-> "idle", kind |-> kind, param |-> param, count |-> count,
      cached |-> Undefined,     \* const cached = cache.get(cacheKey)
      calls |-> <<>>,           \* the promise of the provider call
      res |-> NoResponse,       \* what res.json / res.status().json sent
      wroteAt |-> NoTime ]      \* when the handler wrote the cache

InitItems ==
    /\ \E e \in EnvEnabledInputs : CACHE_ENABLED = CacheEnabled(e)
    /\ \E e \in EnvTtlInputs : CACHE_TTL = CacheTtl(e)
    /\ \E x \in ItemInputs : workload = {x}
    /\ mcpServer = NoServer
    /\ CURRENT_LOG_LEVEL = CurrentLogLevel(NoEnv)
    /\ now = 0
    /\ ticks = 0
    /\ cache = EmptyCache
    /\ reqs = [r \in Reqs |-> IdleReq]

\* The head of a single-item handler: routes/screener checks the type first;
\* then the key is derived, the cache looked up and answered from on a hit,
\* otherwise the provider call is started.  (The await on cache.get in
\* routes/screener and routes/news is on a value that is no promise: the
\* handler goes on in the same turn of the event loop.)
ItemBegin(r, rq) ==
    LET key == ItemKey(rq)
        cached == IF CACHE_ENABLED THEN CacheGet(cache, key, now) ELSE Undefined
        started == [rq EXCEPT !.cached = cached]
    IN  /\ reqs[r].st = "idle"
        /\ ItemInput(rq.kind, rq.param, rq.count) \in workload
        /\ \A q \in Reqs : q < r => reqs[q].st # "idle"
        /\ IF rq.kind = "routes/screener" /\ ~Includes(validTypes, rq.param)
           THEN /\ reqs' = [reqs EXCEPT ![r] =
                        [rq EXCEPT !.st = "done", !.res = InvalidType(rq.param)]]
                /\ cache' = cache
           ELSE /\ cache' = IF CACHE_ENABLED
                            THEN CacheAfterGet(cache, key, now)
                            ELSE cache
                /\ reqs' = [reqs EXCEPT ![r] =
                        IF CACHE_ENABLED /\ Hit(cached)
                        THEN [started EXCEPT !.st = "done",
                                !.res = [status |-> 200, body |-> ToJson(cached)]]
                        ELSE [started EXCEPT !.st = "await",
                                !.calls = <<PendingCall(ItemArgs(rq))>>]]
        /\ UNCHANGED <<CACHE_ENABLED, CACHE_TTL, CURRENT_LOG_LEVEL, workload, mcpServer, now, ticks>>

\* router.get("/search/:query") up to await yahooFinance.search(query)
GetSearch(r, query) == ItemBegin(r, ItemReq("search", query, NoParam))

\* router.get("/trending/:region") up to await yahooFinance.trendingSymbols(region)
GetTrending(r, region) == ItemBegin(r, ItemReq("trending", region, NoParam))

\* router.get("/recommendations/:symbol") up to the await
GetRecommendations(r, symbol) ==
    ItemBegin(r, ItemReq("recommendations", symbol, NoParam))

\* router.get("/insights/:symbol") up to await yahooFinance.insights(symbol)
GetInsights(r, symbol) == ItemBegin(r, ItemReq("insights", symbol, NoParam))

\* router.get("/screener/:type") of the routes module up to the await
GetScreener(r, type, count) == ItemBegin(r, ItemReq("screener", type, count))

\* routes/screener: router.get("/:type") up to await yahooFinance.screener(type)
ScreenerRoute(r, type, count) ==
    ItemBegin(r, ItemReq("routes/screener", type, count))

\* routes/news: router.get("/") up to await yahooFinance.search("", ...)
NewsRoute(r, count) == ItemBegin(r, ItemReq("routes/news", <<>>, count))

\* the provider fulfils the call of request r with value v
ItemResolve(r, v) ==
    /\ reqs[r].st = "await"
    /\ reqs[r].calls[1].status = "pending"
    /\ v \in ItemValues(reqs[r], r)
    /\ reqs' = [reqs EXCEPT ![r].calls[1].status = "fulfilled",
                            ![r].calls[1].value = v]
    /\ UNCHANGED <<CACHE_ENABLED, CACHE_TTL, CURRENT_LOG_LEVEL, workload, mcpServer, now, ticks, cache>>

\* the provider rejects the call of request r with an Error carrying message m
ItemReject(r, m) ==
    /\ reqs[r].st = "await"
    /\ reqs[r].calls[1].status = "pending"
    /\ m \in Messages(r, 1)
    /\ reqs' = [reqs EXCEPT ![r].calls[1].status = "rejected",
                            ![r].calls[1].reason = [message |-> m]]
    /\ UNCHANGED <<CACHE_ENABLED, CACHE_TTL, CURRENT_LOG_LEVEL, workload, mcpServer, now, ticks, cache>>

\* variant: the catch clause stores what it answers with
ItemResumeStoringFailure(r, kind) ==
    LET rq == reqs[r]
        call == rq.calls[1]
        response == IF call.status = "rejected"
                    THEN ErrObj(call.reason.message)
                    ELSE ItemResponse(rq, call.value)
    IN  /\ rq.st = "await"
        /\ rq.kind = kind
        /\ call.status # "pending"
        /\ reqs' = [reqs EXCEPT ![r].st = "done",
                ![r].res = IF call.status = "rejected"
                           THEN Caught(call.reason)
                           ELSE [status |-> 200, body |-> ToJson(response)],
                ![r].wroteAt = IF CACHE_ENABLED THEN now ELSE NoTime]
        /\ cache' = StoreAfter(CACHE_ENABLED, cache, ItemKey(rq), response,
                               now, CACHE_TTL)
        /\ UNCHANGED <<CACHE_ENABLED, CACHE_TTL, CURRENT_LOG_LEVEL, workload, mcpServer, now, ticks>>

\* The rest of a single-item handler, from the await to the response: inside
\* try, store the response and send it; the catch clause answers 500.
ItemResume(r, kind) ==
    LET rq == reqs[r]
        call == rq.calls[1]
    IN  /\ rq.st = "await"
        /\ rq.kind = kind
        /\ call.status # "pending"
        /\ IF call.status = "rejected"
           THEN /\ reqs' = [reqs EXCEPT ![r].st = "done",
                                        ![r].res = Caught(call.reason)]
                /\ cache' = cache
           ELSE LET response == ItemResponse(rq, call.value) IN
                /\ reqs' = [reqs EXCEPT ![r].st = "done",
                        ![r].res = [status |-> 200, body |-> ToJson(response)],
                        ![r].wroteAt = IF CACHE_ENABLED THEN now ELSE NoTime]
                /\ cache' = StoreAfter(CACHE_ENABLED, cache, ItemKey(rq), response,
                                       now, CACHE_TTL)
        /\ UNCHANGED <<CACHE_ENABLED, CACHE_TTL, CURRENT_LOG_LEVEL, workload, mcpServer, now, ticks>>

SearchResume(r) == ItemResume(r, "search")
TrendingResume(r) == ItemResume(r, "trending")
RecommendationsResume(r) == ItemResume(r, "recommendations")
InsightsResume(r) == ItemResume(r, "insights")
ScreenerResume(r) == ItemResume(r, "screener")
ScreenerRouteResume(r) == ItemResume(r, "routes/screener")
NewsRouteResume(r) == ItemResume(r, "routes/news")

NextItems ==
    \/ \E r \in Reqs, x \in workload : x.kind = "search" /\ GetSearch(r, x.param)
    \/ \E r \in Reqs, x \in workload : x.kind = "trending" /\ GetTrending(r, x.param)
    \/ \E r \in Reqs, x \in workload :
            x.kind = "recommendations" /\ GetRecommendations(r, x.param)
    \/ \E r \in Reqs, x \in workload : x.kind = "insights" /\ GetInsights(r, x.param)
    \/ \E r \in Reqs, x \in workload :
            x.kind = "screener" /\ GetScreener(r, x.param, x.count)
    \/ \E r \in Reqs, x \in workload :
            x.kind = "routes/screener" /\ ScreenerRoute(r, x.param, x.count)
    \/ \E r \in Reqs, x \in workload : x.kind = "routes/news" /\ NewsRoute(r, x.count)
    \/ \E r \in Reqs : \E v \in ItemValues(reqs[r], r) : ItemResolve(r, v)
    \/ \E r \in Reqs : \E m \in Messages(r, 1) : ItemReject(r, m)
    \/ \E r \in Reqs : SearchResume(r)
    \/ \E r \in Reqs : TrendingResume(r)
    \/ \E r \in Reqs : RecommendationsResume(r)
    \/ \E r \in Reqs : InsightsResume(r)
    \/ \E r \in Reqs : ScreenerResume(r)
    \/ \E r \in Reqs : ScreenerRouteResume(r)
    \/ \E r \in Reqs : NewsRouteResume(r)
    \/ \E d \in {1, CACHE_TTL} : Tick(d)
    \/ CheckData

SpecItems == InitItems /\ [][NextItems]_vars

----------------------------------------------------------------------------
(* The single-item handlers under provider results that hold nothing *)

EmptyResultInputs ==
    { ItemInput("insights", <<"a">>, NoParam),
      ItemInput("routes/screener", <<"day_losers">>, <<"2">>),
      ItemInput("routes/news", <<>>, NoParam) }

InitEmptyResults ==
    /\ \E e \in EnvEnabledInputs : CACHE_ENABLED = CacheEnabled(e)
    /\ \E e \in EnvTtlInputs : CACHE_TTL = CacheTtl(e)
    /\ \E x \in EmptyResultInputs : workload = {x}
    /\ mcpServer = NoServer
    /\ CURRENT_LOG_LEVEL = CurrentLogLevel(NoEnv)
    /\ now = 0
    /\ ticks = 0
    /\ cache = EmptyCache
    /\ reqs = [r \in Reqs |-> IdleReq]

\* the provider fulfils the insights call of request r with null
ItemResolveNull(r) ==
    /\ reqs[r].st = "await"
    /\ reqs[r].kind = "insights"
    /\ reqs[r].calls[1].status = "pending"
    /\ reqs' = [reqs EXCEPT ![r].calls[1].status = "fulfilled",
                            ![r].calls[1].value = Null]
    /\ UNCHANGED <<CACHE_ENABLED, CACHE_TTL, CURRENT_LOG_LEVEL, workload, mcpServer, now, ticks, cache>>

NextEmptyResults ==
    \/ \E r \in Reqs, x \in workload : x.kind = "insights" /\ GetInsights(r, x.param)
    \/ \E r \in Reqs, x \in workload :
            x.kind = "routes/screener" /\ ScreenerRoute(r, x.param, x.count)
    \/ \E r \in Reqs, x \in workload : x.kind = "routes/news" /\ NewsRoute(r, x.count)
    \/ \E r \in Reqs : \E v \in ItemValues(reqs[r], r) : ItemResolve(r, v)
    \/ \E r \in Reqs : ItemResolveNull(r)
    \/ \E r \in Reqs : \E m \in Messages(r, 1) : ItemReject(r, m)
    \/ \E r \in Reqs : InsightsResume(r)
    \/ \E r \in Reqs : ScreenerRouteResume(r)
    \/ \E r \in Reqs : NewsRouteResume(r)
    \/ \E d \in {1, CACHE_TTL} : Tick(d)
    \/ CheckData

SpecEmptyResults == InitEmptyResults /\ [][NextEmptyResults]_vars

----------------------------------------------------------------------------
(* The two screener handlers under types of every sort *)

ScreenerTypeInputs ==
    { ItemInput("screener", <<"custom">>, NoParam),
      ItemInput("screener", <<"most_shorted">>, NoParam),
      ItemInput("screener", <<"most_actives">>, NoParam),
      ItemInput("routes/screener", <<"custom">>, NoParam),
      ItemInput("routes/screener", <<"most_shorted">>, NoParam),
      ItemInput("routes/screener", <<"most_actives">>, NoParam) }

InitScreenerTypes ==
    /\ \E e \in EnvEnabledInputs : CACHE_ENABLED = CacheEnabled(e)
    /\ \E e \in EnvTtlInputs : CACHE_TTL = CacheTtl(e)
    /\ \E x \in ScreenerTypeInputs : workload = {x}
    /\ mcpServer = NoServer
    /\ CURRENT_LOG_LEVEL = CurrentLogLevel(NoEnv)
    /\ now = 0
    /\ ticks = 0
    /\ cache = EmptyCache
    /\ reqs = [r \in Reqs |-> IdleReq]

NextScreenerTypes ==
    \/ \E r \in Reqs, x \in workload :
            x.kind = "screener" /\ GetScreener(r, x.param, x.count)
    \/ \E r \in Reqs, x \in workload :
            x.kind = "routes/screener" /\ ScreenerRoute(r, x.param, x.count)
    \/ \E r \in Reqs : \E v \in ItemValues(reqs[r], r) : ItemResolve(r, v)
    \/ \E r \in Reqs : \E m \in Messages(r, 1) : ItemReject(r, m)
    \/ \E r \in Reqs : ScreenerResume(r)
    \/ \E r \in Reqs : ScreenerRouteResume(r)
    \/ \E d \in {1, CACHE_TTL} : Tick(d)
    \/ CheckData

SpecScreenerTypes == InitScreenerTypes /\ [][NextScreenerTypes]_vars

----------------------------------------------------------------------------
(* The screener route of routes/screener under counts of every sort *)

\* req.query.count: absent, a number in range, no number, zero, a negative
\* number, a number above the maximum
ScreenerCountInputs ==
    { ItemInput("routes/screener", <<"day_losers">>, c) :
        c \in { NoParam, <<"2">>, <<"x">>, <<"0">>, <<"-", "1">>,
                <<"1", "0", "1">> } }

InitScreenerCounts ==
    /\ \E e \in EnvEnabledInputs : CACHE_ENABLED = CacheEnabled(e)
    /\ \E e \in EnvTtlInputs : CACHE_TTL = CacheTtl(e)
    /\ \E x \in ScreenerCountInputs : workload = {x}
    /\ mcpServer = NoServer
    /\ CURRENT_LOG_LEVEL = CurrentLogLevel(NoEnv)
    /\ now = 0
    /\ ticks = 0
    /\ cache = EmptyCache
    /\ reqs = [r \in Reqs |-> IdleReq]

\* a provider list longer than the maximum the route slices to
ManyQuotes == MAX_SCREENER_COUNT + ScreenerQuotes

\* the provider fulfils the screener call of request r with a long list
ItemResolveMany(r) ==
    /\ reqs[r].st = "await"
    /\ reqs[r].kind = "routes/screener"
    /\ reqs[r].calls[1].status = "pending"
    /\ reqs' = [reqs EXCEPT ![r].calls[1].status = "fulfilled",
                            ![r].calls[1].value =
                                ScreenerResult(r, Arr([i \in 1..ManyQuotes |-> Val(<<r, i>>)]))]
    /\ UNCHANGED <<CACHE_ENABLED, CACHE_TTL, CURRENT_LOG_LEVEL, workload, mcpServer, now, ticks, cache>>

NextScreenerCounts ==
    \/ \E r \in Reqs, x \in workload :
            x.kind = "routes/screener" /\ ScreenerRoute(r, x.param, x.count)
    \/ \E r \in Reqs : \E v \in ItemValues(reqs[r], r) : ItemResolve(r, v)
    \/ \E r \in Reqs : ItemResolveMany(r)
    \/ \E r \in Reqs : \E m \in Messages(r, 1) : ItemReject(r, m)
    \/ \E r \in Reqs : ScreenerRouteResume(r)
    \/ \E d \in {1, CACHE_TTL} : Tick(d)
    \/ CheckData

SpecScreenerCounts == InitScreenerCounts /\ [][NextScreenerCounts]_vars

----------------------------------------------------------------------------
(* Recommendations and insights for one symbol written in two ways *)

CaseInputs ==
    { { ItemInput("recommendations", <<"a">>, NoParam),
        ItemInput("recommendations", <<"A">>, NoParam) },
      { ItemInput("insights", <<"a", "B">>, NoParam),
        ItemInput("insights", <<"A", "b">>, NoParam) } }

InitCases ==
    /\ \E e \in EnvEnabledInputs : CACHE_ENABLED = CacheEnabled(e)
    /\ \E e \in EnvTtlInputs : CACHE_TTL = CacheTtl(e)
    /\ workload \in CaseInputs
    /\ mcpServer = NoServer
    /\ CURRENT_LOG_LEVEL = CurrentLogLevel(NoEnv)
    /\ now = 0
    /\ ticks = 0
    /\ cache = EmptyCache
    /\ reqs = [r \in Reqs |-> IdleReq]

NextCases ==
    \/ \E r \in Reqs, x \in workload :
            x.kind = "recommendations" /\ GetRecommendations(r, x.param)
    \/ \E r \in Reqs, x \in workload : x.kind = "insights" /\ GetInsights(r, x.param)
    \/ \E r \in Reqs : \E v \in ItemValues(reqs[r], r) : ItemResolve(r, v)
    \/ \E r \in Reqs : \E m \in Messages(r, 1) : ItemReject(r, m)
    \/ \E r \in Reqs : RecommendationsResume(r)
    \/ \E r \in Reqs : InsightsResume(r)
    \/ \E d \in {1, CACHE_TTL} : Tick(d)
    \/ CheckData

SpecCases == InitCases /\ [][NextCases]_vars

----------------------------------------------------------------------------
(* The health route, beside the single-item handlers *)

\* res.json({ status: "ok" })
HealthResponse == [status |-> 200, body |-> [tag |-> "health", status |-> "ok"]]

HealthReq ==
    [ st |-> "done", kind |-> "health", param |-> <<>>, count |-> NoParam,
      cached |-> Undefined, calls |-> <<>>,
      res |-> HealthResponse, wroteAt |-> NoTime ]

\* variant: the health route reports a provider that fails
GetHealthOfProvider(r) ==
    /\ reqs[r].st = "idle"
    /\ \A q \in Reqs : q < r => reqs[q].st # "idle"
    /\ reqs' = [reqs EXCEPT ![r] =
            IF \E q \in Reqs : /\ reqs[q].calls # <<>>
                               /\ reqs[q].calls[1].status = "rejected"
            THEN [HealthReq EXCEPT !.res.status = 503]
            ELSE HealthReq]
    /\ UNCHANGED <<CACHE_ENABLED, CACHE_TTL, CURRENT_LOG_LEVEL, workload, mcpServer, now, ticks, cache>>

\* router.get("/health"): logs and answers, in one step
GetHealth(r) ==
    /\ reqs[r].st = "idle"
    /\ \A q \in Reqs : q < r => reqs[q].st # "idle"
    /\ reqs' = [reqs EXCEPT ![r] = HealthReq]
    /\ UNCHANGED <<CACHE_ENABLED, CACHE_TTL, CURRENT_LOG_LEVEL, workload, mcpServer, now, ticks, cache>>

NextHealth ==
    \/ NextItems
    \/ \E r \in Reqs : GetHealth(r)

SpecHealth == InitItems /\ [][NextHealth]_vars

----------------------------------------------------------------------------
(* Requests to two endpoints, or to one endpoint with two parameters, that *)
(* share the store                                                         *)

PairInputs ==
    { { Input("quote", <<"A">>, NoParam, NoParam),
        ItemInput("search", <<"A">>, NoParam) },
      { ItemInput("routes/screener", <<"day_losers">>, <<"2">>),
        ItemInput("routes/screener", <<"most_shorted">>, NoParam) } }

InitPairs ==
    /\ \E e \in EnvEnabledInputs : CACHE_ENABLED = CacheEnabled(e)
    /\ \E e \in EnvTtlInputs : CACHE_TTL = CacheTtl(e)
    /\ workload \in PairInputs
    /\ mcpServer = NoServer
    /\ CURRENT_LOG_LEVEL = CurrentLogLevel(NoEnv)
    /\ now = 0
    /\ ticks = 0
    /\ cache = EmptyCache
    /\ reqs = [r \in Reqs |-> IdleReq]

NextPairs ==
    \/ \E r \in Reqs, x \in workload : x.kind = "quote" /\ GetQuote(r, x.symbols)
    \/ \E r \in Reqs, x \in workload : x.kind = "search" /\ GetSearch(r, x.param)
    \/ \E r \in Reqs, x \in workload :
            x.kind = "routes/screener" /\ ScreenerRoute(r, x.param, x.count)
    \/ \E r \in Reqs :
            /\ reqs[r].kind = "quote"
            /\ \E i \in DOMAIN reqs[r].calls :
                    \E v \in QuoteValues(r, i) : ProviderResolve(r, i, v)
    \/ \E r \in Reqs :
            /\ reqs[r].kind = "quote"
            /\ \E i \in DOMAIN reqs[r].calls :
                    \E m \in Messages(r, i) : ProviderReject(r, i, m)
    \/ \E r \in Reqs :
            /\ reqs[r].kind # "quote"
            /\ \E v \in ItemValues(reqs[r], r) : ItemResolve(r, v)
    \/ \E r \in Reqs :
            /\ reqs[r].kind # "quote"
            /\ \E m \in Messages(r, 1) : ItemReject(r, m)
    \/ \E r \in Reqs : QuoteResume(r)
    \/ \E r \in Reqs : SearchResume(r)
    \/ \E r \in Reqs : ScreenerRouteResume(r)
    \/ \E d \in {1, CACHE_TTL} : Tick(d)
    \/ CheckData

SpecPairs == InitPairs /\ [][NextPairs]_vars

----------------------------------------------------------------------------
(* The MCP endpoint: router.post("/") of mcp/endpoints creates a transport *)
(* for each request and connects the one mcpServer to it.  The server of   *)
(* the SDK (Protocol) has a single transport slot; what connect does with  *)
(* a slot that is taken, and which transport a response is sent on, depend *)
(* on the release of the SDK the build installs.                           *)

\* The releases differ in Protocol.connect and in the transport a response
\* is sent on:
\*   "current":  connect overwrites the slot, the response of a request is
\*               sent on the transport in the slot when the handler is done;
\*   "captured": connect overwrites the slot, the response is sent on the
\*               transport the request came in on;
\*   "guarded":  connect throws while the slot is taken.
SdkBuilds == {"current", "captured", "guarded"}

McpInput(id, method) == [kind |-> "mcp", id |-> id, method |-> method]

\* req.body of the clients of a run: the JSON-RPC id and the method.  Clients
\* number their requests themselves, so two clients can use the same id.
McpInputs ==
    { { McpInput(1, "tools/call") },
      { McpInput(1, "tools/call"), McpInput(2, "tools/call") },
      { McpInput(1, "tools/call"), McpInput(2, "tools/list") } }

\* the result of a tool callback: the content it returns, or the error
\* result McpServer makes of what it throws; and the list of the tools
ToolResults(r) ==
    { [tag |-> "content", of |-> r, isError |-> FALSE],
      [tag |-> "content", of |-> r, isError |-> TRUE] }
ToolList == [tag |-> "tools", of |-> 0, isError |-> FALSE]

\* a JSON-RPC response
Response(id, result) == [tag |-> "jsonrpc", id |-> id, result |-> result]

\* res.status(500).json({ jsonrpc: "2.0", error: {...}, id: null })
InternalError ==
    [status |-> 500,
     body |-> [tag |-> "jsonrpc", id |-> 0,
               result |-> [tag |-> "error", of |-> 0, isError |-> TRUE,
                           code |-> -32603]]]

McpReq(id, method) ==
    [ st |-> "idle", kind |-> "mcp", id |-> id, method |-> method,
      connected |-> FALSE,      \* mcpServer.connect(transport) has returned
      closed |-> FALSE,         \* transport.close() was called
      tool |-> "none",          \* the tool callback: none, running, settled
      res |-> NoResponse ]      \* what was sent on the HTTP response

InitMcp ==
    /\ \E e \in EnvEnabledInputs : CACHE_ENABLED = CacheEnabled(e)
    /\ CACHE_TTL = CacheTtl(NoEnv)
    /\ workload \in McpInputs
    /\ \E b \in SdkBuilds : mcpServer = [sdk |-> b, transport |-> 0]
    /\ CURRENT_LOG_LEVEL = CurrentLogLevel(NoEnv)
    /\ now = 0
    /\ ticks = 0
    /\ cache = EmptyCache
    /\ reqs = [r \in Reqs |-> IdleReq]

\* transport t waits for the response of a request with JSON-RPC id `id`
Waits(t, id) ==
    /\ t \in Reqs
    /\ reqs[t].kind = "mcp"
    /\ reqs[t].st = "open"
    /\ ~reqs[t].closed
    /\ reqs[t].id = id

\* the transport the response of request r is sent on
SendsOn(r) == IF mcpServer.sdk = "current" THEN mcpServer.transport ELSE r

\* router.post("/"): new transport, mcpServer.connect(transport),
\* transport.handleRequest(req, res, req.body).  connect and the dispatch of
\* the message take no input or output, so they run in one turn of the event
\* loop; a tools/list request is answered in that turn, a tools/call request
\* waits for its tool callback.  The catch clause answers 500.
McpPost(r, x) ==
    LET new == McpReq(x.id, x.method) IN
    /\ reqs[r].st = "idle"
    /\ x \in workload
    /\ x.kind = "mcp"
    /\ \A q \in Reqs : q < r => reqs[q].st # "idle"
    /\ IF mcpServer.sdk = "guarded" /\ mcpServer.transport # 0
       THEN /\ reqs' = [reqs EXCEPT ![r] =
                    [new EXCEPT !.st = "done", !.res = InternalError]]
            /\ mcpServer' = mcpServer
       ELSE /\ mcpServer' = [mcpServer EXCEPT !.transport = r]
            /\ reqs' = [reqs EXCEPT ![r] =
                    IF x.method = "tools/list"
                    THEN [new EXCEPT !.st = "done", !.connected = TRUE,
                            !.res = [status |-> 200,
                                     body |-> Response(x.id, ToolList)]]
                    ELSE [new EXCEPT !.st = "open", !.connected = TRUE,
                            !.tool = "running"]]
    /\ UNCHANGED <<CACHE_ENABLED, CACHE_TTL, CURRENT_LOG_LEVEL, workload, now, ticks, cache>>

\* The tool callback of request r returns: the server sends the response on
\* a transport, which writes it to the HTTP response that waits for a
\* response with that id; a transport that has no such request throws, a
\* missing transport sends nothing.
ToolSettles(r, result) ==
    LET t == SendsOn(r) IN
    /\ reqs[r].kind = "mcp"
    /\ reqs[r].tool = "running"
    /\ result \in ToolResults(r)
    /\ reqs' = [q \in Reqs |->
            LET settled == IF q = r THEN [reqs[q] EXCEPT !.tool = "settled"]
                           ELSE reqs[q]
            IN  IF q = t /\ Waits(t, reqs[r].id)
                THEN [settled EXCEPT !.st = "done",
                        !.res = [status |-> 200,
                                 body |-> Response(reqs[r].id, result)]]
                ELSE settled]
    /\ UNCHANGED <<CACHE_ENABLED, CACHE_TTL, CURRENT_LOG_LEVEL, workload, mcpServer, now, ticks, cache>>

\* res.on("close", () => transport.close()): the close of a transport that
\* was connected runs the server's onclose, which empties the slot.
ResClose(r) ==
    /\ reqs[r].kind = "mcp"
    /\ reqs[r].st = "done"
    /\ ~reqs[r].closed
    /\ reqs' = [reqs EXCEPT ![r].closed = TRUE]
    /\ mcpServer' = IF reqs[r].connected
                    THEN [mcpServer EXCEPT !.transport = 0]
                    ELSE mcpServer
    /\ UNCHANGED <<CACHE_ENABLED, CACHE_TTL, CURRENT_LOG_LEVEL, workload, now, ticks, cache>>

NextMcp ==
    \/ \E r \in Reqs, x \in workload : McpPost(r, x)
    \/ \E r \in Reqs : \E result \in ToolResults(r) : ToolSettles(r, result)
    \/ \E r \in Reqs : ResClose(r)

SpecMcp == InitMcp /\ [][NextMcp]_vars

----------------------------------------------------------------------------
(* The MCP endpoint, await by await: what is written on the HTTP response  *)
(* of a request when connect or handleRequest throws.  When handleRequest  *)
(* throws, and whether the transport has written by then, is up to the SDK.*)

PostReq(id, method) ==
    [ st |-> "idle", kind |-> "mcp/post", id |-> id, method |-> method,
      connected |-> FALSE,      \* mcpServer.connect(transport) has returned
      closed |-> FALSE,         \* transport.close() was called
      headersSent |-> FALSE,    \* res.headersSent
      written |-> <<>> ]        \* the responses written on res, in order

\* variant: the catch clause answers without looking at res.headersSent
CatchAnswering(rq) ==
    [rq EXCEPT !.st = "caught", !.headersSent = TRUE,
               !.written = Append(@, InternalError)]

\* catch (error) { if (!res.headersSent) { res.status(500).json({...}) } }
Catch(rq) ==
    IF ~rq.headersSent
    THEN [rq EXCEPT !.st = "caught", !.headersSent = TRUE,
                    !.written = Append(@, InternalError)]
    ELSE [rq EXCEPT !.st = "caught"]

\* router.post("/") up to await transport.handleRequest(req, res, req.body):
\* connect throws on a release that guards a slot that is taken
McpArrives(r, x) ==
    LET new == PostReq(x.id, x.method) IN
    /\ reqs[r].st = "idle"
    /\ x \in workload
    /\ x.kind = "mcp"
    /\ \A q \in Reqs : q < r => reqs[q].st # "idle"
    /\ IF mcpServer.sdk = "guarded" /\ mcpServer.transport # 0
       THEN /\ reqs' = [reqs EXCEPT ![r] = Catch(new)]
            /\ mcpServer' = mcpServer
       ELSE /\ reqs' = [reqs EXCEPT ![r] =
                    [new EXCEPT !.st = "handling", !.connected = TRUE]]
            /\ mcpServer' = [mcpServer EXCEPT !.transport = r]
    /\ UNCHANGED <<CACHE_ENABLED, CACHE_TTL, CURRENT_LOG_LEVEL, workload, now, ticks, cache>>

\* the transport writes the response to the message on res
TransportWrites(r, result) ==
    /\ reqs[r].kind = "mcp/post"
    /\ reqs[r].st \in {"handling", "returned"}
    /\ ~reqs[r].headersSent
    /\ ~reqs[r].closed
    /\ result \in ToolResults(r)
    /\ reqs' = [reqs EXCEPT ![r].headersSent = TRUE,
                    ![r].written = Append(@, [status |-> 200,
                                              body |-> Response(reqs[r].id, result)])]
    /\ UNCHANGED <<CACHE_ENABLED, CACHE_TTL, CURRENT_LOG_LEVEL, workload, mcpServer, now, ticks, cache>>

\* await transport.handleRequest(...) returns: the handler is done
HandleRequestReturns(r) ==
    /\ reqs[r].kind = "mcp/post"
    /\ reqs[r].st = "handling"
    /\ reqs' = [reqs EXCEPT ![r].st = "returned"]
    /\ UNCHANGED <<CACHE_ENABLED, CACHE_TTL, CURRENT_LOG_LEVEL, workload, mcpServer, now, ticks, cache>>

\* await transport.handleRequest(...) throws, before the transport has
\* written or after: the catch clause runs
HandleRequestThrows(r) ==
    /\ reqs[r].kind = "mcp/post"
    /\ reqs[r].st = "handling"
    /\ reqs' = [reqs EXCEPT ![r] = Catch(reqs[r])]
    /\ UNCHANGED <<CACHE_ENABLED, CACHE_TTL, CURRENT_LOG_LEVEL, workload, mcpServer, now, ticks, cache>>

\* res.on("close", () => transport.close()), once the response is out or
\* the client has gone
PostClose(r) ==
    /\ reqs[r].kind = "mcp/post"
    /\ reqs[r].st \in {"returned", "caught"}
    /\ ~reqs[r].closed
    /\ reqs' = [reqs EXCEPT ![r].closed = TRUE]
    /\ mcpServer' = IF reqs[r].connected
                    THEN [mcpServer EXCEPT !.transport = 0]
                    ELSE mcpServer
    /\ UNCHANGED <<CACHE_ENABLED, CACHE_TTL, CURRENT_LOG_LEVEL, workload, now, ticks, cache>>

NextMcpErrors ==
    \/ \E r \in Reqs, x \in workload : McpArrives(r, x)
    \/ \E r \in Reqs : \E result \in ToolResults(r) : TransportWrites(r, result)
    \/ \E r \in Reqs : HandleRequestReturns(r)
    \/ \E r \in Reqs : HandleRequestThrows(r)
    \/ \E r \in Reqs : PostClose(r)

SpecMcpErrors == InitMcp /\ [][NextMcpErrors]_vars

----------------------------------------------------------------------------
(* The tools of the MCP server: the input schema of a tool is checked      *)
(* before its callback runs.                                               *)

\* the largest count a client sends
MaxCount == 101

\* the count argument of a tools/call request: absent, or a whole number
CountInputs == {Undefined} \cup { Number(n) : n \in 0..MaxCount }

ToolInput(tool, count) == [kind |-> "tool", tool |-> tool, count |-> count]

\* the tools that take a count
ToolInputs ==
    { ToolInput(t, c) :
        t \in {"get_market_intelligence", "get_news_and_research"},
        c \in CountInputs }

\* z.number().min(lo).max(hi).default(d): the parsed value, or no success
ZNumber(lo, hi, d, input) ==
    IF input = Undefined
    THEN [success |-> TRUE, data |-> d]
    ELSE IF lo <= input.n /\ input.n <= hi
         THEN [success |-> TRUE, data |-> input.n]
         ELSE [success |-> FALSE, data |-> 0]

\* inputSchema.count of the tools
CountSchema(tool, input) ==
    CASE tool = "get_market_intelligence" -> ZNumber(1, 50, 25, input)
      [] tool = "get_news_and_research" -> ZNumber(1, 25, 10, input)

\* the error a tools/call request with invalid arguments is answered with
InvalidArguments == [tag |-> "invalid", of |-> 0, isError |-> TRUE]

ToolReq(tool, count) ==
    [ st |-> "idle", kind |-> "tool", tool |-> tool, count |-> count,
      passed |-> 0,             \* the count the tool handler was called with
      called |-> FALSE,         \* the callback of the tool has run
      res |-> NoResponse ]

InitTools ==
    /\ \E e \in EnvEnabledInputs : CACHE_ENABLED = CacheEnabled(e)
    /\ CACHE_TTL = CacheTtl(NoEnv)
    /\ \E x \in ToolInputs : workload = {x}
    /\ mcpServer = NoServer
    /\ CURRENT_LOG_LEVEL = CurrentLogLevel(NoEnv)
    /\ now = 0
    /\ ticks = 0
    /\ cache = EmptyCache
    /\ reqs = [r \in Reqs |-> IdleReq]

\* A tools/call request: the arguments are parsed with the input schema;
\* when they do not parse the request is answered with an error and the
\* callback does not run, otherwise the callback calls the tool handler
\* with the parsed count (count ?? 25, count ?? 10).
CallTool(r, x) ==
    LET parsed == CountSchema(x.tool, x.count)
        new == ToolReq(x.tool, x.count)
    IN  /\ reqs[r].st = "idle"
        /\ x \in workload
        /\ x.kind = "tool"
        /\ \A q \in Reqs : q < r => reqs[q].st # "idle"
        /\ reqs' = [reqs EXCEPT ![r] =
                IF parsed.success
                THEN [new EXCEPT !.st = "open", !.called = TRUE,
                                 !.passed = parsed.data]
                ELSE [new EXCEPT !.st = "done",
                        !.res = [status |-> 200,
                                 body |-> Response(1, InvalidArguments)]]]
        /\ UNCHANGED <<CACHE_ENABLED, CACHE_TTL, CURRENT_LOG_LEVEL, workload, mcpServer, now, ticks, cache>>

\* the tool handler returns and the callback wraps its result as content
ToolReturns(r, result) ==
    /\ reqs[r].kind = "tool"
    /\ reqs[r].st = "open"
    /\ result \in ToolResults(r)
    /\ reqs' = [reqs EXCEPT ![r].st = "done",
                    ![r].res = [status |-> 200, body |-> Response(1, result)]]
    /\ UNCHANGED <<CACHE_ENABLED, CACHE_TTL, CURRENT_LOG_LEVEL, workload, mcpServer, now, ticks, cache>>

NextTools ==
    \/ \E r \in Reqs, x \in workload : CallTool(r, x)
    \/ \E r \in Reqs : \E result \in ToolResults(r) : ToolReturns(r, result)

SpecTools == InitTools /\ [][NextTools]_vars

----------------------------------------------------------------------------
(* utils/logger: calls of log under every LOG_LEVEL *)

\* the levels log is called with, and the messages
Levels == {"error", "warn", "info", "debug"}
LogMessages == {"m1", "m2"}

\* a run of the server under a setting of LOG_LEVEL
LogInput(env) == [kind |-> "log", LOG_LEVEL |-> env]

InitLog ==
    /\ CACHE_ENABLED = CacheEnabled(NoEnv)
    /\ CACHE_TTL = CacheTtl(NoEnv)
    /\ mcpServer = NoServer
    /\ \E e \in EnvLogLevelInputs :
            /\ workload = {LogInput(e)}
            /\ CURRENT_LOG_LEVEL = CurrentLogLevel(e)
    /\ now = 0
    /\ ticks = 0
    /\ cache = EmptyCache
    /\ reqs = [r \in Reqs |-> IdleReq]

NoLine == [tag |-> "none"]

\* `[${timestamp}] ${level.toUpperCase()}: ${message}`
Line(timestamp, level, message) ==
    [tag |-> "line", timestamp |-> timestamp, message |-> message,
     level |-> CASE level = "error" -> "ERROR"
                 [] level = "warn" -> "WARN"
                 [] level = "info" -> "INFO"
                 [] level = "debug" -> "DEBUG"]

\* a call of log: what it was called with and what console.log printed
LogCall(level, message, line) ==
    [st |-> "done", kind |-> "log", level |-> level, message |-> message,
     line |-> line]

\* log(level, message): the line is printed if
\* LOG_LEVELS[level] <= CURRENT_LOG_LEVEL
Log(r, level, message) ==
    /\ reqs[r].st = "idle"
    /\ \E x \in workload : x.kind = "log"
    /\ \A q \in Reqs : q < r => reqs[q].st # "idle"
    /\ reqs' = [reqs EXCEPT ![r] =
            LogCall(level, message,
                    IF LessOrEqual(LevelOf(level), CURRENT_LOG_LEVEL)
                    THEN Line(now, level, message)
                    ELSE NoLine)]
    /\ UNCHANGED <<CACHE_ENABLED, CACHE_TTL, CURRENT_LOG_LEVEL, workload, mcpServer, now, ticks, cache>>

NextLog == \E r \in Reqs, level \in Levels, message \in LogMessages : Log(r, level, message)

SpecLog == InitLog /\ [][NextLog]_vars

----------------------------------------------------------------------------
(* Vocabulary of the properties *)

Ordered(rq) == rq.kind \in {"history", "info"}
Keyed(rq) == rq.kind = "quote"

\* answered after a fan-out of its own / answered from the cache
Fresh(rq) == rq.st = "done" /\ rq.calls # <<>>
Served(rq) == rq.st = "done" /\ rq.calls = <<>>

\* the key list of a request and its length N
KeysOf(rq) == SymbolList(rq.symbols)
N(rq) == Len(KeysOf(rq))

Failed(c) == c.status = "rejected"
Succeeded(c) == c.status = "fulfilled"
Settled(c) == Failed(c) \/ Succeeded(c)

\* the shapes an outcome takes in a response body
IsValue(v) == v.tag = "val"
IsNullMarker(v) == v.tag = "null"
IsErrorObject(v) == v.tag = "error"

\* the outcomes of a response body hold a failure
HasFailure(body) ==
    CASE body.tag = "array" -> \E i \in DOMAIN body.items : IsNullMarker(body.items[i])
      [] body.tag = "object" -> \E n \in DOMAIN body.props : IsErrorObject(body.props[n])
      [] OTHER -> FALSE

SameRequest(a, b) ==
    /\ a.kind = b.kind
    /\ a.symbols = b.symbols
    /\ a.period = b.period
    /\ a.interval = b.interval

\* a step in which the handler of request r starts / sends its response
\* after the join
Starts(r) == reqs[r].st = "idle" /\ reqs'[r].st # "idle"
Completes(r) == reqs[r].st = "await" /\ reqs'[r].st = "done"

----------------------------------------------------------------------------
(* C1 *)

\* C1, as claimed: the aggregate of every answered fan-out request (quote,
\* history, info) over N keys holds exactly N outcomes, and every outcome is
\* exactly one of a success value or an error marker.
C1_ExactlyNOutcomes ==
    \A r \in Reqs : reqs[r].st = "done" =>
        LET body == reqs[r].res.body IN
        IF Ordered(reqs[r])
        THEN /\ body.tag = "array"
             /\ Len(body.items) = N(reqs[r])
             /\ \A i \in DOMAIN body.items :
                    IsValue(body.items[i]) # IsNullMarker(body.items[i])
        ELSE /\ body.tag = "object"
             /\ Cardinality(DOMAIN body.props) = N(reqs[r])
             /\ \A n \in DOMAIN body.props :
                    IsValue(body.props[n]) # IsErrorObject(body.props[n])

\* C1, amended: history and info return exactly N outcomes, one per key
\* position; quote returns one outcome for each distinct symbol of the list
\* other than "__proto__" (N outcomes when the N symbols are distinct and none
\* is "__proto__"); every outcome is exactly one of a success value or an
\* error marker.
C1_OutcomePerPositionOrSymbol ==
    \A r \in Reqs : reqs[r].st = "done" =>
        LET body == reqs[r].res.body
            keys == KeysOf(reqs[r])
        IN
        IF Ordered(reqs[r])
        THEN /\ body.tag = "array"
             /\ Len(body.items) = Len(keys)
             /\ \A i \in DOMAIN body.items :
                    IsValue(body.items[i]) # IsNullMarker(body.items[i])
        ELSE /\ body.tag = "object"
             /\ DOMAIN body.props =
                    { keys[i] : i \in DOMAIN keys } \ { <<"__proto__">> }
             /\ \A n \in DOMAIN body.props :
                    IsValue(body.props[n]) # IsErrorObject(body.props[n])

\* C1, witness: a quote request for a symbol given twice was answered after
\* one of its calls failed and the other succeeded.
C1_Witness ==
    \E r \in Reqs :
        /\ Fresh(reqs[r])
        /\ Len(reqs[r].calls) = 2
        /\ Failed(reqs[r].calls[1])
        /\ Succeeded(reqs[r].calls[2])
        /\ reqs[r].kind = "quote"
        /\ KeysOf(reqs[r])[1] = KeysOf(reqs[r])[2]

----------------------------------------------------------------------------
(* C2 *)

\* C2: in ordered mode (history, info), whatever the order in which the calls
\* settled, call i was made for the key at position i and slot i of the output
\* is the outcome of call i: its data when it succeeded, null when it failed.
C2_OrderPreserved ==
    \A r \in Reqs : (Fresh(reqs[r]) /\ Ordered(reqs[r])) =>
        LET body == reqs[r].res.body
            keys == KeysOf(reqs[r])
        IN  /\ Len(body.items) = Len(keys)
            /\ Len(reqs[r].calls) = Len(keys)
            /\ \A i \in DOMAIN keys :
                /\ reqs[r].calls[i].args.symbol = keys[i]
                /\ Succeeded(reqs[r].calls[i]) => body.items[i] = Val(<<r, i>>)
                /\ Failed(reqs[r].calls[i]) => body.items[i] = Null

\* C2, witness: a history request over two keys was answered after its second
\* call settled before its first, one succeeding and one failing.
C2_Witness ==
    \E r \in Reqs :
        /\ Fresh(reqs[r])
        /\ reqs[r].kind = "history"
        /\ reqs[r].order = <<2, 1>>
        /\ Succeeded(reqs[r].calls[1])
        /\ Failed(reqs[r].calls[2])

----------------------------------------------------------------------------
(* C3, C4, C6: what the cache returns *)

\* the requests with the parameters of rq that have written the cache
Writers(rq) ==
    { q \in Reqs : /\ reqs[q].st = "done"
                   /\ reqs[q].wroteAt # NoTime
                   /\ SameRequest(reqs[q], rq) }

\* q is the one that wrote last
LastWriter(q, rq) ==
    /\ q \in Writers(rq)
    /\ \A p \in Writers(rq) \ {q} : reqs[p].wroteAt < reqs[q].wroteAt

\* C3: with caching enabled, a request that starts less than the TTL after the
\* last request with the same parameters wrote the cache is answered at once
\* with the response of that request and makes no provider call.
C3_CacheIdempotence ==
    [][ \A r2 \in Reqs : (Starts(r2) /\ CACHE_ENABLED) =>
            \A r1 \in Reqs :
                ( /\ LastWriter(r1, reqs'[r2])
                  /\ now - reqs[r1].wroteAt < CACHE_TTL )
                => /\ reqs'[r2].st = "done"
                   /\ reqs'[r2].res = reqs[r1].res
                   /\ reqs'[r2].calls = <<>>
      ]_vars

\* C3, witness: time has passed since a request wrote the cache, and a second
\* request with the same parameters was answered with the same response
\* without a provider call.
C3_Witness ==
    \E r1, r2 \in Reqs :
        /\ CACHE_ENABLED
        /\ Fresh(reqs[r1])
        /\ reqs[r1].wroteAt # NoTime
        /\ now > reqs[r1].wroteAt
        /\ Served(reqs[r2])
        /\ SameRequest(reqs[r1], reqs[r2])
        /\ reqs[r2].res = reqs[r1].res
        /\ reqs[r2].res.status = 200

C6_FailuresCached ==
    [][ \A r \in Reqs :
          /\ ( /\ Completes(r)
               /\ CACHE_ENABLED
               /\ HasFailure(reqs'[r].res.body) )
             => /\ reqs'[r].res.status = 200
                /\ CacheKey(reqs[r]) \in DOMAIN cache'
                /\ cache'[CacheKey(reqs[r])].t = now + CACHE_TTL
                /\ ToJson(cache'[CacheKey(reqs[r])].v) = reqs'[r].res.body
          /\ (Starts(r) /\ CACHE_ENABLED) =>
                \A w \in Reqs :
                    ( /\ LastWriter(w, reqs'[r])
                      /\ now - reqs[w].wroteAt < CACHE_TTL
                      /\ HasFailure(reqs[w].res.body) )
                    => /\ Served(reqs'[r])
                       /\ reqs'[r].res.status = 200
                       /\ reqs'[r].res.body = reqs[w].res.body
      ]_vars

\* C6, witness: a request was answered from the cache with an aggregate in
\* which every outcome is a failure.
C6_Witness ==
    \E r1, r2 \in Reqs :
        /\ Fresh(reqs[r1])
        /\ Len(reqs[r1].calls) = 2
        /\ \A i \in DOMAIN reqs[r1].calls : Failed(reqs[r1].calls[i])
        /\ Served(reqs[r2])
        /\ reqs[r2].res = reqs[r1].res
        /\ HasFailure(reqs[r2].res.body)

----------------------------------------------------------------------------
(* C5 *)

\* C5: with caching disabled the store stays empty, no request holds a value
\* read from it or has written it, and every request that has started has
\* made one provider call per key of its own.
C5_DisabledPassThrough ==
    ~CACHE_ENABLED =>
        /\ cache = EmptyCache
        /\ \A r \in Reqs : reqs[r].st # "idle" =>
            /\ reqs[r].cached = Undefined
            /\ Len(reqs[r].calls) = N(reqs[r])
            /\ \A i \in DOMAIN reqs[r].calls :
                    reqs[r].calls[i].args.symbol = KeysOf(reqs[r])[i]

\* C5, witness: with caching disabled two requests with the same parameters
\* were both answered, each from its own provider calls.
C5_Witness ==
    \E r1, r2 \in Reqs :
        /\ ~CACHE_ENABLED
        /\ r1 # r2
        /\ SameRequest(reqs[r1], reqs[r2])
        /\ Fresh(reqs[r1]) /\ Fresh(reqs[r2])
        /\ Len(reqs[r1].calls) = 2 /\ Len(reqs[r2].calls) = 2
        /\ reqs[r1].res # reqs[r2].res

----------------------------------------------------------------------------
(* C7, C8: failures of single calls *)

\* C7: no request is ever answered with 500; a request whose call failed gets
\* no response while a sibling call is pending, and once answered it is
\* answered with 200 after every call has settled, the data of the calls that
\* succeeded being in the aggregate (ordered mode: at their position; keyed
\* mode: under their symbol, unless a later position repeats the symbol).
C7_FailureNotEscalated ==
    \A r \in Reqs :
        LET rq == reqs[r]
            keys == KeysOf(rq)
        IN  /\ rq.res.status \in {0, 200}
            /\ rq.st = "await" => rq.res = NoResponse
            /\ rq.st = "done" =>
                /\ rq.res.status = 200
                /\ \A i \in DOMAIN rq.calls : Settled(rq.calls[i])
                /\ \A i \in DOMAIN rq.calls : Succeeded(rq.calls[i]) =>
                    IF Ordered(rq)
                    THEN rq.res.body.items[i] = Val(<<r, i>>)
                    ELSE \/ keys[i] = <<"__proto__">>
                         \/ \E j \in DOMAIN keys : j > i /\ keys[j] = keys[i]
                         \/ rq.res.body.props[keys[i]] = Val(<<r, i>>)

\* C7, witness: the first call of a request failed, its second call succeeded
\* afterwards, and the request was answered with 200 and the second call's data.
C7_Witness ==
    \E r \in Reqs :
        /\ Fresh(reqs[r])
        /\ reqs[r].order = <<1, 2>>
        /\ Failed(reqs[r].calls[1])
        /\ Succeeded(reqs[r].calls[2])
        /\ reqs[r].res.status = 200
        /\ Ordered(reqs[r])
        /\ reqs[r].res.body.items[2] = Val(<<r, 2>>)

\* C8, as claimed: for every call that failed, in keyed mode and in ordered
\* mode alike, the outcome in the aggregate is an error marker that carries
\* the message of that failure.
C8_ErrorCarriesMessage ==
    \A r \in Reqs : Fresh(reqs[r]) =>
        LET rq == reqs[r]
            keys == KeysOf(rq)
        IN  \A i \in DOMAIN rq.calls : Failed(rq.calls[i]) =>
                IF Keyed(rq)
                THEN /\ keys[i] \in DOMAIN rq.res.body.props
                     /\ rq.res.body.props[keys[i]] =
                            ErrObj(rq.calls[i].reason.message)
                ELSE /\ IsErrorObject(rq.res.body.items[i])
                     /\ rq.res.body.items[i].error = rq.calls[i].reason.message

\* C8, amended: in keyed mode (quote) the entry of a symbol is an error marker
\* carrying the message of the failed call, when that call is the last one
\* made for the symbol and the symbol is not "__proto__"; in ordered mode
\* (history, info) the slot of a failed call is null and carries no message.
C8_KeyedMessageOrderedNull ==
    \A r \in Reqs : Fresh(reqs[r]) =>
        LET rq == reqs[r]
            keys == KeysOf(rq)
        IN  \A i \in DOMAIN rq.calls : Failed(rq.calls[i]) =>
                IF Keyed(rq)
                THEN \/ keys[i] = <<"__proto__">>
                     \/ \E j \in DOMAIN keys : j > i /\ keys[j] = keys[i]
                     \/ /\ keys[i] \in DOMAIN rq.res.body.props
                        /\ rq.res.body.props[keys[i]] =
                                ErrObj(rq.calls[i].reason.message)
                ELSE rq.res.body.items[i] = Null

\* C8, witness: a quote request for two symbols was answered after the call
\* for the second failed; its entry is the error marker with the message.
C8_Witness ==
    \E r \in Reqs :
        /\ Fresh(reqs[r])
        /\ Keyed(reqs[r])
        /\ reqs[r].symbols = <<"A", ",", "B">>
        /\ Succeeded(reqs[r].calls[1])
        /\ Failed(reqs[r].calls[2])
        /\ reqs[r].res.body.props[<<"B">>] = ErrObj(<<"Not found", r, 2>>)

----------------------------------------------------------------------------
(* C9, C10: what the store holds *)

\* v is the complete aggregate of the fan-out of request r: one outcome per
\* key, each the outcome of a call of r itself
OwnAggregate(v, r) ==
    LET rq == reqs[r]
        keys == KeysOf(rq)
        outcome(i) == IF Succeeded(rq.calls[i])
                      THEN Val(<<r, i>>)
                      ELSE IF Keyed(rq) THEN ErrObj(<<"Not found", r, i>>) ELSE Null
    IN  /\ Len(rq.calls) = Len(keys)
        /\ \A i \in DOMAIN rq.calls : Settled(rq.calls[i])
        /\ IF Ordered(rq)
           THEN /\ v.tag = "array"
                /\ Len(v.items) = Len(keys)
                /\ \A i \in DOMAIN keys : v.items[i] = outcome(i)
           ELSE /\ v.tag = "object"
                /\ DOMAIN v.props = { keys[i] : i \in DOMAIN keys } \ { <<"__proto__">> }
                /\ \A n \in DOMAIN v.props :
                        \E i \in DOMAIN keys : keys[i] = n /\ v.props[n] = outcome(i)

\* C9: every step that puts an entry into the store, or changes one, is the
\* step of a request that sends its response, whose calls, one per key, had
\* all settled before the step; the entry is under that request's key and
\* holds the aggregate the request returns.
C9_WriteAfterAllSettled ==
    [][ \A k \in DOMAIN cache' :
            (k \notin DOMAIN cache \/ cache'[k] # cache[k]) =>
                \E r \in Reqs :
                    /\ Completes(r)
                    /\ CacheKey(reqs[r]) = k
                    /\ Len(reqs[r].calls) = N(reqs[r])
                    /\ \A i \in DOMAIN reqs[r].calls : Settled(reqs[r].calls[i])
                    /\ ToJson(cache'[k].v) = reqs'[r].res.body
      ]_vars

\* C9, witness: the store holds the entry written by a request over two keys
\* whose second call settled first.
C9_Witness ==
    \E r \in Reqs :
        /\ Fresh(reqs[r])
        /\ reqs[r].order = <<2, 1>>
        /\ reqs[r].wroteAt # NoTime
        /\ CacheKey(reqs[r]) \in DOMAIN cache
        /\ cache[CacheKey(reqs[r])].t = reqs[r].wroteAt + CACHE_TTL
        /\ ToJson(cache[CacheKey(reqs[r])].v) = reqs[r].res.body

\* C10: with caching enabled, every request that has started has made either
\* no provider call or one call per key, and every entry of the store is the
\* complete aggregate of the fan-out of one answered request with that cache
\* key: never outcomes of two fan-outs.
C10_NoMixedEntry ==
    CACHE_ENABLED =>
        /\ \A r \in Reqs : reqs[r].st # "idle" =>
                Len(reqs[r].calls) \in {0, N(reqs[r])}
        /\ \A k \in DOMAIN cache :
                \E r \in Reqs :
                    /\ Fresh(reqs[r])
                    /\ CacheKey(reqs[r]) = k
                    /\ OwnAggregate(cache[k].v, r)

\* C10, witness: two requests with the same parameters were in flight at the
\* same time, both missed, both made their fan-out with different results,
\* and the store holds the aggregate of the one that wrote last.
C10_Witness ==
    \E r1, r2 \in Reqs :
        /\ r1 # r2
        /\ CACHE_ENABLED
        /\ Fresh(reqs[r1]) /\ Fresh(reqs[r2])
        /\ SameRequest(reqs[r1], reqs[r2])
        /\ Len(reqs[r1].calls) = 2
        /\ reqs[r1].wroteAt <= reqs[r2].wroteAt
        /\ reqs[r2].wroteAt <= reqs[r1].wroteAt + CACHE_TTL
        /\ reqs[r1].res # reqs[r2].res
        /\ CacheKey(reqs[r2]) \in DOMAIN cache
        /\ OwnAggregate(cache[CacheKey(reqs[r2])].v, r2)

----------------------------------------------------------------------------
(* C11, C12: the provider calls of one fan-out *)

\* C11: a handler that misses starts the provider call of every key position
\* in the step in which it starts, before it waits on the join: at the end of
\* that step there is one call per key, each made for its key and none
\* settled; while the handler waits, no call is added and no call's arguments
\* change, whichever of its calls settle.
C11_AllStartedBeforeAwait ==
    [][ \A r \in Reqs :
          /\ (Starts(r) /\ reqs'[r].st = "await") =>
                /\ DOMAIN reqs'[r].calls = DOMAIN KeysOf(reqs'[r])
                /\ \A i \in DOMAIN reqs'[r].calls :
                        /\ reqs'[r].calls[i].status = "pending"
                        /\ reqs'[r].calls[i].args.symbol = KeysOf(reqs'[r])[i]
          /\ reqs[r].st = "await" =>
                /\ DOMAIN reqs'[r].calls = DOMAIN reqs[r].calls
                /\ \A i \in DOMAIN reqs[r].calls :
                        reqs'[r].calls[i].args = reqs[r].calls[i].args
      ]_vars

\* C11, witness: a handler waits on the join, the call for its second key
\* has failed and the call for its first key, started with it, is pending.
C11_Witness ==
    \E r \in Reqs :
        /\ reqs[r].st = "await"
        /\ Len(reqs[r].calls) = 2
        /\ reqs[r].calls[1].status = "pending"
        /\ Failed(reqs[r].calls[2])
        /\ reqs[r].order = <<2>>

\* C12: a request that is not answered from the cache (a miss, or caching
\* disabled) makes exactly N provider calls, call i for the key at position i,
\* so that a key that occurs twice is called twice; afterwards the number of
\* its calls never changes, each call settles at most once, and a call that
\* has settled, failed or not, stays as it settled: it is not issued again.
C12_OneCallPerPosition ==
    [][ \A r \in Reqs :
          /\ (Starts(r) /\ ~Served(reqs'[r])) =>
                /\ Len(reqs'[r].calls) = N(reqs'[r])
                /\ \A i \in DOMAIN reqs'[r].calls :
                        reqs'[r].calls[i].args.symbol = KeysOf(reqs'[r])[i]
          /\ reqs[r].st # "idle" =>
                /\ Len(reqs'[r].calls) = Len(reqs[r].calls)
                /\ \A i \in DOMAIN reqs[r].calls :
                        Settled(reqs[r].calls[i]) =>
                            reqs'[r].calls[i] = reqs[r].calls[i]
                /\ \A i, j \in DOMAIN reqs'[r].order :
                        reqs'[r].order[i] = reqs'[r].order[j] => i = j
      ]_vars

\* C12, witness: with caching disabled a quote request for the same symbol
\* twice was answered after two calls for that symbol, both failed.
C12_Witness ==
    \E r \in Reqs :
        /\ ~CACHE_ENABLED
        /\ Fresh(reqs[r])
        /\ Keyed(reqs[r])
        /\ Len(reqs[r].calls) = 2
        /\ reqs[r].calls[1].args.symbol = reqs[r].calls[2].args.symbol
        /\ Failed(reqs[r].calls[1]) /\ Failed(reqs[r].calls[2])
        /\ reqs[r].order = <<2, 1>>

----------------------------------------------------------------------------
(* C13, C16: how the keys of a request are written *)

\* the options of a request, defaults substituted
OptionsOf(rq) ==
    <<DefaultTo(rq.period, <<"1y">>), DefaultTo(rq.interval, <<"1d">>)>>

\* the same endpoint, the same trimmed symbols in the same order, the same
\* options
CacheEquivalent(a, b) ==
    /\ a.kind = b.kind
    /\ KeysOf(a) = KeysOf(b)
    /\ OptionsOf(a) = OptionsOf(b)

\* q is the request that wrote the cache last among those equivalent to rq
LastEquivalentWriter(q, rq) ==
    /\ reqs[q].st = "done"
    /\ reqs[q].wroteAt # NoTime
    /\ CacheEquivalent(reqs[q], rq)
    /\ \A p \in Reqs \ {q} :
            ( /\ reqs[p].st = "done"
              /\ reqs[p].wroteAt # NoTime
              /\ CacheEquivalent(reqs[p], rq) )
            => reqs[p].wroteAt < reqs[q].wroteAt

\* C13, as claimed: when a handler starts, every request to the same endpoint
\* that a handler has taken up and whose trimmed symbols, in order, and
\* options are equal has the same cache key, and with caching enabled the
\* starting request is answered from the entry that the last of them wrote
\* less than the TTL before; a request to the same endpoint whose symbols are
\* in another order has a different cache key.
C13_EquivalentRequestsShareKey ==
    [][ \A r2 \in Reqs : (Starts(r2) /\ reqs'[r2].st \in {"await", "done"}) =>
            \A r1 \in Reqs \ {r2} : reqs[r1].st \in {"await", "done"} =>
                /\ CacheEquivalent(reqs[r1], reqs'[r2]) =>
                        CacheKey(reqs[r1]) = CacheKey(reqs'[r2])
                /\ ( /\ CACHE_ENABLED
                     /\ LastEquivalentWriter(r1, reqs'[r2])
                     /\ now - reqs[r1].wroteAt < CACHE_TTL )
                   => /\ Served(reqs'[r2])
                      /\ reqs'[r2].res = reqs[r1].res
                /\ ( /\ reqs[r1].kind = reqs'[r2].kind
                     /\ KeysOf(reqs[r1]) # KeysOf(reqs'[r2]) )
                   => CacheKey(reqs[r1]) # CacheKey(reqs'[r2])
      ]_vars

\* C16, as claimed: no provider call is made for a blank key, every request
\* that reached a handler has at least one key, and a request without a key
\* is answered by the route layer, with no provider call, no value read from
\* the cache and nothing written to it.
C16_NoCallForBlankKey ==
    \A r \in Reqs :
        /\ \A i \in DOMAIN reqs[r].calls : reqs[r].calls[i].args.symbol # <<>>
        /\ reqs[r].st \in {"await", "done"} =>
                /\ N(reqs[r]) >= 1
                /\ \A i \in DOMAIN KeysOf(reqs[r]) : KeysOf(reqs[r])[i] # <<>>
        /\ (reqs[r].st # "idle" /\ reqs[r].symbols = <<>>) =>
                /\ reqs[r].st = "unrouted"
                /\ reqs[r].res.status = 404
                /\ reqs[r].calls = <<>>
                /\ reqs[r].cached = Undefined
                /\ reqs[r].wroteAt = NoTime

----------------------------------------------------------------------------
(* C15 *)

\* every provider call of the request has settled
EveryCallSettled(rq) == \A i \in DOMAIN rq.calls : Settled(rq.calls[i])

\* C15: (a) a request whose calls have all settled is eventually answered:
\* it does not wait for ever with every call settled, and the step that ends
\* the wait answers it with 200;
\* (b) a request receives one response: once answered, its response and its
\* handler state never change; (c) a request with a pending call has no
\* response and has not written the cache, and no step in which it still has
\* a pending call answers it or changes the entry under its cache key,
\* however many of its other calls have settled.
C15_ResponseAfterAllSettled ==
    /\ \A r \in Reqs :
            []<>(~(reqs[r].st = "await" /\ EveryCallSettled(reqs[r])))
    /\ [][ \A r \in Reqs :
              /\ ( /\ reqs[r].st = "await"
                   /\ EveryCallSettled(reqs[r])
                   /\ reqs'[r] # reqs[r] )
                 => (reqs'[r].st = "done" /\ reqs'[r].res.status = 200)
              /\ reqs[r].st = "done" => reqs'[r] = reqs[r]
              /\ (reqs[r].st = "await" /\ ~EveryCallSettled(reqs[r])) =>
                    /\ reqs[r].res = NoResponse
                    /\ reqs[r].wroteAt = NoTime
                    /\ reqs'[r].res = NoResponse
                    /\ reqs'[r].wroteAt = NoTime
                    /\ reqs'[r].st = "await"
                    /\ \A q \in Reqs : Completes(q) => q # r
          ]_vars

\* C15, witness: a request over two keys was answered; its first call settled
\* last, by failing.
C15_Witness ==
    \E r \in Reqs :
        /\ Fresh(reqs[r])
        /\ reqs[r].order = <<2, 1>>
        /\ Failed(reqs[r].calls[1])
        /\ Succeeded(reqs[r].calls[2])
        /\ reqs[r].res.status = 200
        /\ Keyed(reqs[r])

----------------------------------------------------------------------------
(* C17 *)

\* C17: with caching enabled, the step in which a handler writes the cache
\* leaves under its key the entry with the expiry of that moment plus the
\* default TTL and with the aggregate it returns, whatever was stored under
\* the key before, and leaves every other entry as it was; after every step,
\* each entry of the store carries the aggregate and the expiry of a request
\* that wrote that key and that no request wrote that key after.
C17_WriteReplacesEntry ==
    [][ /\ \A r \in Reqs : (Completes(r) /\ CACHE_ENABLED) =>
              LET k == CacheKey(reqs[r]) IN
              /\ k \in DOMAIN cache'
              /\ cache'[k].t = now + CACHE_TTL
              /\ ToJson(cache'[k].v) = reqs'[r].res.body
              /\ reqs'[r].wroteAt = now
              /\ \A j \in DOMAIN cache' \ {k} :
                    j \in DOMAIN cache /\ cache'[j] = cache[j]
        /\ \A k \in DOMAIN cache' :
              \E w \in Reqs :
                  /\ reqs'[w].st = "done"
                  /\ reqs'[w].wroteAt # NoTime
                  /\ CacheKey(reqs'[w]) = k
                  /\ cache'[k].t = reqs'[w].wroteAt + CACHE_TTL
                  /\ ToJson(cache'[k].v) = reqs'[w].res.body
                  /\ \A q \in Reqs :
                        ( /\ reqs'[q].st = "done"
                          /\ reqs'[q].wroteAt # NoTime
                          /\ CacheKey(reqs'[q]) = k )
                        => reqs'[q].wroteAt <= reqs'[w].wroteAt
      ]_vars

\* C17, witness: two requests for the same key both missed; the second wrote
\* after the first, while the entry of the first had not expired, and the
\* store holds the aggregate and the expiry of the second.
C17_Witness ==
    \E r1, r2 \in Reqs :
        /\ r1 # r2
        /\ Fresh(reqs[r1]) /\ Fresh(reqs[r2])
        /\ CacheKey(reqs[r1]) = CacheKey(reqs[r2])
        /\ reqs[r1].wroteAt # NoTime
        /\ reqs[r1].wroteAt < reqs[r2].wroteAt
        /\ reqs[r2].wroteAt < reqs[r1].wroteAt + CACHE_TTL
        /\ cache[CacheKey(reqs[r2])].t = reqs[r2].wroteAt + CACHE_TTL
        /\ ToJson(cache[CacheKey(reqs[r2])].v) = reqs[r2].res.body
        /\ reqs[r2].res.body # reqs[r1].res.body

----------------------------------------------------------------------------
(* C14, C19, C20: the single-item handlers *)

\* the entry a starting handler finds under key k, if it finds one
LiveEntry(k) == CACHE_ENABLED /\ k \in DOMAIN cache /\ ~Expired(cache[k], now)

\* a step in which request r is turned away for its screener type
Refused(r) == Starts(r) /\ reqs'[r].res.status = 400

\* what a starting single-item handler does: a hit returns the stored value
\* with no provider call, a miss starts exactly one provider call
CacheThenFetch(r) ==
    LET k == ItemKey(reqs'[r]) IN
    IF LiveEntry(k)
    THEN /\ Served(reqs'[r])
         /\ reqs'[r].res = [status |-> 200, body |-> ToJson(cache[k].v)]
    ELSE /\ reqs'[r].st = "await"
         /\ reqs'[r].res = NoResponse
         /\ Len(reqs'[r].calls) = 1
         /\ reqs'[r].calls[1].status = "pending"

\* C14, as claimed: every single-item request (search, trending,
\* recommendations, insights, screener, news) that is not turned away for its
\* type is answered from the cache on a hit, with no provider call; on a miss
\* it makes exactly one provider call, and when it is answered after that
\* call, whether the call succeeded or failed, what it returns is stored
\* under its cache key, with the expiry of any entry.
C14_OutcomeStoredAndReturned ==
    [][ \A r \in Reqs :
          /\ (Starts(r) /\ ~Refused(r)) => CacheThenFetch(r)
          /\ Completes(r) =>
                /\ Len(reqs[r].calls) = 1
                /\ Settled(reqs[r].calls[1])
                /\ CACHE_ENABLED =>
                      /\ ItemKey(reqs[r]) \in DOMAIN cache'
                      /\ cache'[ItemKey(reqs[r])].t = now + CACHE_TTL
                      /\ ToJson(cache'[ItemKey(reqs[r])].v) = reqs'[r].res.body
      ]_vars

\* C14, amended: a single-item request is answered from the cache on a hit,
\* with no provider call, and on a miss makes exactly one provider call (a
\* request that routes/screener turns away for its type makes no call and
\* does not touch the cache).  When the call succeeds the request is answered
\* 200 with the response built from the result (the result itself; for
\* routes/screener the result with its quotes cut to the count; for
\* routes/news the count and the articles of the result), and with caching
\* enabled that response is stored under the cache key.  When the call fails
\* the request is answered 500 with the message of the failure and the cache
\* is left as it was.
C14_SuccessStoredFailureAnswered500 ==
    [][ \A r \in Reqs :
          /\ (Starts(r) /\ ~Refused(r)) => CacheThenFetch(r)
          /\ Refused(r) =>
                /\ reqs'[r].kind = "routes/screener"
                /\ reqs'[r].param \notin
                        {<<"day_gainers">>, <<"day_losers">>, <<"most_actives">>}
                /\ reqs'[r].calls = <<>>
                /\ reqs'[r].cached = Undefined
                /\ cache' = cache
          /\ Completes(r) =>
                LET k == ItemKey(reqs[r])
                    call == reqs[r].calls[1]
                    body == reqs'[r].res.body
                IN
                /\ Len(reqs[r].calls) = 1
                /\ Settled(call)
                /\ Succeeded(call) =>
                      /\ reqs'[r].res.status = 200
                      /\ CASE reqs[r].kind = "routes/news" ->
                                /\ body.tag = "news"
                                /\ body.count = Len(body.news.items)
                                /\ body.count =
                                      IF call.value.news = Undefined
                                      THEN 0
                                      ELSE Len(call.value.news.items)
                           [] reqs[r].kind = "routes/screener" ->
                                /\ body.id = call.value.id
                                /\ body.quotes.tag = "array"
                                /\ call.value.quotes = Undefined =>
                                        body.quotes.items = <<>>
                                /\ ( /\ call.value.quotes # Undefined
                                     /\ CountOf(reqs[r]) > 0 ) =>
                                        LET given == call.value.quotes.items IN
                                        /\ Len(body.quotes.items) <= CountOf(reqs[r])
                                        /\ Len(body.quotes.items) <= MAX_SCREENER_COUNT
                                        /\ \/ Len(body.quotes.items) = Len(given)
                                           \/ Len(body.quotes.items) = CountOf(reqs[r])
                                           \/ Len(body.quotes.items) = MAX_SCREENER_COUNT
                                        /\ \A i \in DOMAIN body.quotes.items :
                                                body.quotes.items[i] = given[i]
                           [] OTHER -> body = call.value
                      /\ IF CACHE_ENABLED
                         THEN /\ k \in DOMAIN cache'
                              /\ cache'[k].t = now + CACHE_TTL
                              /\ ToJson(cache'[k].v) = body
                         ELSE cache' = cache
                /\ Failed(call) =>
                      /\ reqs'[r].res.status = 500
                      /\ body = ErrObj(call.reason.message)
                      /\ reqs'[r].wroteAt = NoTime
                      /\ cache' = cache
      ]_vars

\* C14, witness: with caching enabled a search request was answered 500
\* after its call failed; the next request for the same query found no
\* entry, made its own call, and its result is in the store.
C14_Witness ==
    \E r1, r2 \in Reqs :
        /\ CACHE_ENABLED
        /\ reqs[r1].st = "done" /\ reqs[r2].st = "done"
        /\ reqs[r1].kind = "search" /\ reqs[r2].kind = "search"
        /\ Len(reqs[r1].calls) = 1 /\ Len(reqs[r2].calls) = 1
        /\ Failed(reqs[r1].calls[1])
        /\ reqs[r1].res.status = 500
        /\ Succeeded(reqs[r2].calls[1])
        /\ reqs[r2].res.status = 200
        /\ ItemKey(reqs[r2]) \in DOMAIN cache
        /\ cache[ItemKey(reqs[r2])].v = reqs[r2].calls[1].value

\* the types the screener tests ask for
ScreenerTypes ==
    { <<"day_gainers">>, <<"day_losers">>, <<"most_actives">>, <<"most_shorted">> }

\* C19, as claimed: a screener request for one of the types day_gainers,
\* day_losers, most_actives, most_shorted is answered with status 200 or 500,
\* whatever the provider does.
C19_ScreenerAnswers200Or500 ==
    \A r \in Reqs :
        ( /\ reqs[r].st = "done"
          /\ reqs[r].kind \in {"screener", "routes/screener"}
          /\ reqs[r].param \in ScreenerTypes )
        => reqs[r].res.status \in {200, 500}

\* the maximum the news route documents for count
NEWS_MAXIMUM == 50

\* C20, as claimed: the count field of a 200 response of the news route
\* exceeds neither the count asked for (10 when none is given) nor 50.
C20_NewsCountBounded ==
    \A r \in Reqs :
        ( /\ reqs[r].st = "done"
          /\ reqs[r].kind = "routes/news"
          /\ reqs[r].res.status = 200 )
        => /\ reqs[r].res.body.count <= CountOr(reqs[r].count, DEFAULT_NEWS_COUNT)
           /\ reqs[r].res.body.count <= NEWS_MAXIMUM

----------------------------------------------------------------------------
(* C18: MCP requests in flight at once *)

\* request r has the response to its own message: the JSON-RPC id of its
\* message, and the result of its own tool callback or the list of tools
OwnResponse(r) ==
    /\ reqs[r].res.status = 200
    /\ reqs[r].res.body.id = reqs[r].id
    /\ IF reqs[r].method = "tools/list"
       THEN reqs[r].res.body.result = ToolList
       ELSE reqs[r].res.body.result \in ToolResults(r)

\* C18: every POST /mcp request is handled independently of the others that
\* are in flight: it is never answered with an error of the endpoint, the
\* response it gets is the response to its own message, and once its tool
\* callback has settled it has that response.
C18_McpRequestsIndependent ==
    \A r \in Reqs :
        reqs[r].kind = "mcp" =>
            /\ reqs[r].res.status \in {0, 200}
            /\ reqs[r].res.status = 200 => OwnResponse(r)
            /\ reqs[r].tool = "settled" => OwnResponse(r)

\* A request that is alone in flight from its start to its response is
\* answered with its own response on every release of the SDK.
AloneInFlight(r) ==
    \A q \in Reqs \ {r} : reqs[q].kind = "mcp" => reqs[q].closed
C18_AloneIsAnswered ==
    [][\A r \in Reqs, x \in workload :
            (McpPost(r, x) /\ AloneInFlight(r)) =>
                (reqs'[r].st = "done" => OwnResponse(r)')]_vars

----------------------------------------------------------------------------
(* C21: the count limits of the MCP tools *)

\* MCP.md: count (number): default 25, max 100 / default 10, max 50
DOC_INTELLIGENCE_DEFAULT == 25
DOC_INTELLIGENCE_MAX == 100
DOC_NEWS_DEFAULT == 10
DOC_NEWS_MAX == 50

DocMax(tool) ==
    IF tool = "get_market_intelligence" THEN DOC_INTELLIGENCE_MAX ELSE DOC_NEWS_MAX
DocDefault(tool) ==
    IF tool = "get_market_intelligence"
    THEN DOC_INTELLIGENCE_DEFAULT
    ELSE DOC_NEWS_DEFAULT

\* C21, as claimed: get_market_intelligence accepts every count from 1 to
\* 100 and get_news_and_research every count from 1 to 50, and no other; the
\* tool handler is called with the count given, and with 25 and 10 when none
\* is given.
C21_SchemaLimitsAsDocumented ==
    \A r \in Reqs :
        (reqs[r].kind = "tool" /\ reqs[r].st # "idle") =>
            IF reqs[r].count = Undefined
            THEN reqs[r].called /\ reqs[r].passed = DocDefault(reqs[r].tool)
            ELSE IF 1 <= reqs[r].count.n /\ reqs[r].count.n <= DocMax(reqs[r].tool)
                 THEN reqs[r].called /\ reqs[r].passed = reqs[r].count.n
                 ELSE ~reqs[r].called

----------------------------------------------------------------------------
(* C22: the health route *)

\* C22: a request to /health is answered in the step it arrives in, with
\* 200 and {status: "ok"}, whatever the cache holds and whatever the provider
\* calls of the other requests have done; it starts no provider call, has
\* read nothing from the cache, and the store and the other requests are as
\* they were.
C22_HealthAlwaysOk ==
    [][ \A r \in Reqs :
          (Starts(r) /\ reqs'[r].kind = "health") =>
              /\ reqs'[r].st = "done"
              /\ reqs'[r].res.status = 200
              /\ reqs'[r].res.body = [tag |-> "health", status |-> "ok"]
              /\ reqs'[r].calls = <<>>
              /\ reqs'[r].cached = Undefined
              /\ reqs'[r].wroteAt = NoTime
              /\ cache' = cache
              /\ \A q \in Reqs \ {r} : reqs'[q] = reqs[q]
      ]_vars

\* C22, witness: a health request was answered 200 while the provider call
\* of another request had failed and that request was not answered yet.
C22_Witness ==
    \E r, q \in Reqs :
        /\ reqs[r].kind = "health"
        /\ reqs[r].res.status = 200
        /\ reqs[q].st = "await"
        /\ reqs[q].calls[1].status = "rejected"

----------------------------------------------------------------------------
(* C23: a symbol named more than once *)

\* the positions of symbol s in the key list of rq
PositionsOf(rq, s) == { i \in DOMAIN KeysOf(rq) : KeysOf(rq)[i] = s }
LastPosition(rq, s) ==
    CHOOSE i \in PositionsOf(rq, s) : \A j \in PositionsOf(rq, s) : j <= i
Symbols(rq) == { KeysOf(rq)[i] : i \in DOMAIN KeysOf(rq) }
HasDuplicate(rq) == Cardinality(Symbols(rq)) < N(rq)

\* C23, as claimed: in the response of a quote request that names a symbol
\* more than once and is answered after its fan-out, every symbol of the
\* request has one entry, the entry is the outcome of the call made for the
\* symbol's last position (its value, or the error marker with its message),
\* in whatever order the calls settled, and the map has as many entries as
\* the request has distinct symbols.
C23_LastOccurrenceWins ==
    \A r \in Reqs :
        ( /\ Keyed(reqs[r])
          /\ Fresh(reqs[r])
          /\ HasDuplicate(reqs[r]) )
        => LET props == reqs[r].res.body.props IN
           /\ \A s \in Symbols(reqs[r]) :
                LET call == reqs[r].calls[LastPosition(reqs[r], s)] IN
                /\ s \in DOMAIN props
                /\ Succeeded(call) => props[s] = call.value
                /\ Failed(call) => props[s] = ErrObj(call.reason.message)
           /\ Cardinality(DOMAIN props) = Cardinality(Symbols(reqs[r]))

\* The same for the symbols that are not "__proto__": holds.
C23_LastOccurrenceWinsButProto ==
    \A r \in Reqs :
        ( /\ Keyed(reqs[r])
          /\ Fresh(reqs[r])
          /\ HasDuplicate(reqs[r]) )
        => LET props == reqs[r].res.body.props IN
           /\ \A s \in Symbols(reqs[r]) \ {<<"__proto__">>} :
                LET call == reqs[r].calls[LastPosition(reqs[r], s)] IN
                /\ s \in DOMAIN props
                /\ Succeeded(call) => props[s] = call.value
                /\ Failed(call) => props[s] = ErrObj(call.reason.message)
           /\ DOMAIN props = Symbols(reqs[r]) \ {<<"__proto__">>}

----------------------------------------------------------------------------
(* C24: a failing call of a single-item handler *)

\* What a store holds at time t: the entries that are not expired.  (An
\* expired entry is absent for every reader; a lookup that finds one
\* deletes it.)
Contents(store, t) ==
    [k \in { j \in DOMAIN store : ~Expired(store[j], t) } |-> store[k]]

SameItem(a, b) == a.kind = b.kind /\ a.param = b.param /\ a.count = b.count

\* the requests with the parameters of rq that have written the cache
ItemWriters(rq) ==
    { q \in Reqs : /\ reqs[q].st = "done"
                   /\ reqs[q].wroteAt # NoTime
                   /\ SameItem(reqs[q], rq) }

\* C24: a single-item request whose provider call fails is answered 500
\* with the message of the failure, and neither its lookup nor its answer
\* changes what the cache holds; a request with the same parameters that
\* starts after it, when no request with these parameters has written the
\* cache, is a miss and makes a provider call of its own.
C24_FailureLeavesCacheAlone ==
    [][ \A r \in Reqs :
          /\ (Completes(r) /\ Failed(reqs[r].calls[1])) =>
                /\ reqs'[r].res.status = 500
                /\ reqs'[r].res.body = ErrObj(reqs[r].calls[1].reason.message)
                /\ cache' = cache
          /\ (Starts(r) /\ reqs'[r].st = "await") =>
                Contents(cache', now) = Contents(cache, now)
          /\ ( /\ Starts(r)
               /\ reqs'[r].res.status # 400
               /\ ItemWriters(reqs'[r]) = {}
               /\ \E q \in Reqs : /\ SameItem(reqs[q], reqs'[r])
                                  /\ reqs[q].st = "done"
                                  /\ reqs[q].res.status = 500 )
             => /\ reqs'[r].st = "await"
                /\ Len(reqs'[r].calls) = 1
                /\ reqs'[r].calls[1].status = "pending"
      ]_vars

\* C24, witness: with caching enabled a news request was answered 500, the
\* store is empty, and a second news request with the same count waits for
\* a provider call of its own.
C24_Witness ==
    \E r1, r2 \in Reqs :
        /\ CACHE_ENABLED
        /\ reqs[r1].kind = "routes/news" /\ reqs[r2].kind = "routes/news"
        /\ reqs[r1].st = "done"
        /\ reqs[r1].res.status = 500
        /\ Failed(reqs[r1].calls[1])
        /\ DOMAIN cache = {}
        /\ reqs[r2].st = "await"
        /\ reqs[r2].calls[1].status = "pending"

----------------------------------------------------------------------------
(* C25: which requests share a cache key *)

\* requests to the same endpoint with the same parameters, the defaults of
\* period and interval filled in
SameParameters(a, b) ==
    /\ a.kind = b.kind
    /\ a.symbols = b.symbols
    /\ DefaultTo(a.period, <<"1y">>) = DefaultTo(b.period, <<"1y">>)
    /\ DefaultTo(a.interval, <<"1d">>) = DefaultTo(b.interval, <<"1d">>)

\* C25, as claimed: two requests derive the same cache key only if they are
\* requests to the same endpoint with the same parameters, and a request
\* answered from the cache gets the response of a request to the same
\* endpoint with the same parameters.
C25_KeySharedOnlyBySameRequest ==
    \A r1, r2 \in Reqs :
        (reqs[r1].st # "idle" /\ reqs[r2].st # "idle") =>
            /\ CacheKey(reqs[r1]) = CacheKey(reqs[r2]) =>
                    SameParameters(reqs[r1], reqs[r2])
            /\ Served(reqs[r2]) =>
                    \E w \in Reqs : /\ Fresh(reqs[w])
                                    /\ SameParameters(reqs[w], reqs[r2])
                                    /\ reqs[w].res = reqs[r2].res

\* The part that holds: requests to different endpoints never share a key.
C25_EndpointsShareNoKey ==
    \A r1, r2 \in Reqs :
        (reqs[r1].st # "idle" /\ reqs[r2].st # "idle") =>
            (CacheKey(reqs[r1]) = CacheKey(reqs[r2]) =>
                reqs[r1].kind = reqs[r2].kind)

----------------------------------------------------------------------------
(* C26: what was stored is a hit *)

\* C26, as claimed: with caching enabled, a request that starts while an
\* entry is stored under its key and has not expired is answered with the
\* stored value and makes no provider call, whatever the value is.
C26_StoredValueIsHit ==
    [][ \A r \in Reqs :
          (Starts(r) /\ LiveEntry(ItemKey(reqs'[r]))) =>
              /\ Served(reqs'[r])
              /\ reqs'[r].res =
                    [status |-> 200,
                     body |-> ToJson(cache[ItemKey(reqs'[r])].v)]
      ]_vars

\* The part that holds: a stored value other than null is a hit, the empty
\* list of quotes and the response with no news included.
C26_StoredObjectIsHit ==
    [][ \A r \in Reqs :
          ( /\ Starts(r)
            /\ LiveEntry(ItemKey(reqs'[r]))
            /\ cache[ItemKey(reqs'[r])].v # Null ) =>
              /\ Served(reqs'[r])
              /\ reqs'[r].res =
                    [status |-> 200,
                     body |-> ToJson(cache[ItemKey(reqs'[r])].v)]
      ]_vars

----------------------------------------------------------------------------
(* C27: the null marker of the ordered aggregate *)

\* C27, as claimed: in the response of a history or info request answered
\* after its fan-out, slot i is null if and only if call i failed.
C27_NullIffFailed ==
    \A r \in Reqs : (Fresh(reqs[r]) /\ Ordered(reqs[r])) =>
        \A i \in DOMAIN reqs[r].calls :
            IsNullMarker(reqs[r].res.body.items[i]) <=> Failed(reqs[r].calls[i])

\* The part that holds: the slot of a call that failed is null.
C27_FailedIsNull ==
    \A r \in Reqs : (Fresh(reqs[r]) /\ Ordered(reqs[r])) =>
        \A i \in DOMAIN reqs[r].calls :
            Failed(reqs[r].calls[i]) => IsNullMarker(reqs[r].res.body.items[i])

----------------------------------------------------------------------------
(* C28: the cache writes of a request *)

\* the cache key of a request, whatever its handler
KeyOf(rq) ==
    IF rq.kind \in {"quote", "history", "info"} THEN CacheKey(rq) ELSE ItemKey(rq)

\* C28: an entry is written or replaced only in the step in which a request
\* with that cache key is answered 200 after its provider calls, and that
\* request has not written before; a step of a request changes no entry
\* under another key; a request answered from the cache, refused with 400
\* or answered 500 leaves what the cache holds as it was and writes
\* nothing; a request that was answered takes no further step.
C28_AtMostOneWriteUnderOwnKey ==
    [][ /\ \A k \in DOMAIN cache' :
              (k \notin DOMAIN cache \/ cache'[k] # cache[k]) =>
                  \E r \in Reqs : /\ Completes(r)
                                  /\ KeyOf(reqs[r]) = k
                                  /\ reqs'[r].res.status = 200
                                  /\ reqs[r].wroteAt = NoTime
                                  /\ reqs'[r].wroteAt = now
        /\ \A r \in Reqs :
              /\ (Starts(r) \/ Completes(r)) =>
                    \A k \in DOMAIN cache :
                        k # KeyOf(reqs'[r]) =>
                            (k \in DOMAIN cache' /\ cache'[k] = cache[k])
              /\ ( \/ Starts(r) /\ reqs'[r].st = "done"
                   \/ Completes(r) /\ reqs'[r].res.status = 500 ) =>
                    /\ Contents(cache', now) = Contents(cache, now)
                    /\ reqs'[r].wroteAt = NoTime
              /\ reqs[r].st = "done" => reqs'[r] = reqs[r]
      ]_vars

\* C28, witness: a quote request and a search request have each written
\* their own entry, and the store holds both.
C28_Witness ==
    \E r1, r2 \in Reqs :
        /\ reqs[r1].kind = "quote" /\ reqs[r2].kind = "search"
        /\ Fresh(reqs[r1]) /\ Fresh(reqs[r2])
        /\ reqs[r1].wroteAt # NoTime /\ reqs[r2].wroteAt # NoTime
        /\ KeyOf(reqs[r1]) \in DOMAIN cache
        /\ KeyOf(reqs[r2]) \in DOMAIN cache
        /\ ToJson(cache[KeyOf(reqs[r1])].v) = reqs[r1].res.body
        /\ ToJson(cache[KeyOf(reqs[r2])].v) = reqs[r2].res.body

----------------------------------------------------------------------------
(* C29: a cache hit *)

\* C29: a request answered from the cache leaves the store as it was; the
\* expiry of every entry is one TTL after the write of the request that
\* stored it, whatever was read since; and a request is answered from the
\* cache no later than one TTL after that write.
C29_HitLeavesStoreUnchanged ==
    /\ [][ \A r \in Reqs :
              (Starts(r) /\ Served(reqs'[r])) =>
                  /\ cache' = cache
                  /\ \E w \in Writers(reqs'[r]) :
                        /\ now <= reqs[w].wroteAt + CACHE_TTL
                        /\ cache[CacheKey(reqs'[r])].t = reqs[w].wroteAt + CACHE_TTL
         ]_vars
    /\ [](\A k \in DOMAIN cache :
            \E w \in Reqs : /\ reqs[w].st = "done"
                            /\ reqs[w].wroteAt # NoTime
                            /\ CacheKey(reqs[w]) = k
                            /\ cache[k].t = reqs[w].wroteAt + CACHE_TTL)

\* C29, witness: a request was answered from the entry another had written,
\* more than one TTL has passed since the write, and the entry is in the
\* store with the expiry of its write: it has expired although it was read.
C29_Witness ==
    \E r1, r2 \in Reqs :
        /\ CACHE_ENABLED
        /\ Fresh(reqs[r1])
        /\ reqs[r1].wroteAt # NoTime
        /\ Served(reqs[r2])
        /\ SameRequest(reqs[r1], reqs[r2])
        /\ now > reqs[r1].wroteAt + CACHE_TTL
        /\ CacheKey(reqs[r1]) \in DOMAIN cache
        /\ cache[CacheKey(reqs[r1])].t = reqs[r1].wroteAt + CACHE_TTL
        /\ Expired(cache[CacheKey(reqs[r1])], now)

----------------------------------------------------------------------------
(* C30: a screener type that is not valid *)

\* the types routes/screener takes
ValidScreenerTypes == { <<"day_gainers">>, <<"day_losers">>, <<"most_actives">> }

\* the body is an error whose message names every valid type
NamesValidTypes(body) ==
    /\ IsErrorObject(body)
    /\ \A t \in ValidScreenerTypes :
            \E i \in DOMAIN body.error : <<body.error[i]>> = t

\* request r is turned away in the step it arrives in: 400, no provider
\* call, nothing read from the cache, the store as it was
TurnedAway(r) ==
    /\ reqs'[r].st = "done"
    /\ reqs'[r].res.status = 400
    /\ NamesValidTypes(reqs'[r].res.body)
    /\ reqs'[r].calls = <<>>
    /\ reqs'[r].cached = Undefined
    /\ reqs'[r].wroteAt = NoTime
    /\ cache' = cache

----------------------------------------------------------------------------
(* C31: the quotes of a screener response *)

\* the count of the claim: the count query parsed as an integer, 25 when it
\* is absent or cannot be parsed
ParsedCount(count) ==
    LET p == ParseInt(count) IN IF p.nan THEN DEFAULT_SCREENER_COUNT ELSE p.n

\* the first k items of a list, all of them when it holds fewer
FirstOf(items, k) ==
    [i \in 1..(IF k < Len(items) THEN (IF k < 0 THEN 0 ELSE k) ELSE Len(items)) |->
        items[i]]

\* the list of the provider: result.quotes, none when the result holds none
ProviderList(call) ==
    IF call.value.quotes.tag = "array" THEN call.value.quotes.items ELSE <<>>

ScreenerAnswered(r) ==
    /\ reqs[r].st = "done"
    /\ reqs[r].kind = "routes/screener"
    /\ reqs[r].res.status = 200
    /\ Fresh(reqs[r])

\* C31, as claimed: the 200 response of a screener request that called the
\* provider holds the first min(count, 100) quotes of the provider's list in
\* provider order, count being the count query parsed as an integer, or 25
\* when it is absent or cannot be parsed; it holds at most count and at most
\* 100 quotes.
C31_FirstQuotesOfProviderList ==
    \A r \in Reqs :
        ScreenerAnswered(r) =>
            LET count == ParsedCount(reqs[r].count)
                quotes == reqs[r].res.body.quotes.items
            IN  /\ quotes = FirstOf(ProviderList(reqs[r].calls[1]),
                                    IF count < 100 THEN count ELSE 100)
                /\ Len(quotes) <= count
                /\ Len(quotes) <= 100

\* The same for the counts of 1 and more, and for an absent or unparsable
\* count: holds.
C31_FirstQuotesForPositiveCount ==
    \A r \in Reqs :
        ( /\ ScreenerAnswered(r)
          /\ ParsedCount(reqs[r].count) >= 1 ) =>
            LET count == ParsedCount(reqs[r].count)
                quotes == reqs[r].res.body.quotes.items
            IN  /\ quotes = FirstOf(ProviderList(reqs[r].calls[1]),
                                    IF count < 100 THEN count ELSE 100)
                /\ Len(quotes) <= count
                /\ Len(quotes) <= 100

----------------------------------------------------------------------------
(* C32: symbols that differ in letter case *)

LowerCase(c) == CASE c = "A" -> "a" [] c = "B" -> "b" [] OTHER -> c

\* two symbols that differ at most in the case of their letters
SameButCase(s, t) ==
    /\ Len(s) = Len(t)
    /\ \A i \in DOMAIN s : LowerCase(s[i]) = LowerCase(t[i])

NoLowerCase(s) == \A i \in DOMAIN s : s[i] \notin {"a", "b"}

BySymbol(rq) == rq.kind \in {"recommendations", "insights"}

\* requests to the same endpoint for one symbol, in whatever case
SameSymbol(a, b) ==
    /\ BySymbol(a)
    /\ a.kind = b.kind
    /\ SameButCase(a.param, b.param)

\* the requests for the symbol of rq that have written the cache
SymbolWriters(rq) ==
    { q \in Reqs : /\ reqs[q].st = "done"
                   /\ reqs[q].wroteAt # NoTime
                   /\ SameSymbol(reqs[q], rq) }

LastSymbolWriter(q, rq) ==
    /\ q \in SymbolWriters(rq)
    /\ \A p \in SymbolWriters(rq) \ {q} : reqs[p].wroteAt < reqs[q].wroteAt

\* C32: a recommendations or insights request that calls the provider calls
\* it with its symbol in upper case, so that requests whose symbols differ
\* only in letter case make the same call; they write one and the same
\* entry; and, with caching enabled, a request that starts less than the
\* TTL after the last request for its symbol, in whatever case, wrote the
\* cache is answered with the response of that request and makes no call.
C32_CaseInsensitiveSymbol ==
    [][ /\ \A r \in Reqs :
            (BySymbol(reqs'[r]) /\ reqs'[r].calls # <<>>) =>
                /\ NoLowerCase(reqs'[r].calls[1].args.arg)
                /\ SameButCase(reqs'[r].calls[1].args.arg, reqs'[r].param)
        /\ \A r1, r2 \in Reqs :
            ( /\ SameSymbol(reqs'[r1], reqs'[r2])
              /\ reqs'[r1].calls # <<>> /\ reqs'[r2].calls # <<>> )
            => reqs'[r1].calls[1].args = reqs'[r2].calls[1].args
        /\ ( \A x, y \in workload : SameSymbol(x, y) )
            => Cardinality(DOMAIN cache') <= 1
        /\ \A r2 \in Reqs : (Starts(r2) /\ CACHE_ENABLED) =>
            \A r1 \in Reqs :
                ( /\ LastSymbolWriter(r1, reqs'[r2])
                  /\ now - reqs[r1].wroteAt < CACHE_TTL )
                => /\ reqs'[r2].st = "done"
                   /\ reqs'[r2].res = reqs[r1].res
                   /\ reqs'[r2].calls = <<>>
      ]_vars

\* C32, witness: a request for a symbol in lower case wrote the cache, time
\* passed, and a request for the same symbol written in another case was
\* answered with the same response without a provider call.
C32_Witness ==
    \E r1, r2 \in Reqs :
        /\ CACHE_ENABLED
        /\ reqs[r1].kind = "insights" /\ reqs[r2].kind = "insights"
        /\ reqs[r1].param = <<"a", "B">>
        /\ reqs[r2].param = <<"A", "b">>
        /\ Fresh(reqs[r1])
        /\ reqs[r1].wroteAt # NoTime
        /\ now > reqs[r1].wroteAt
        /\ Served(reqs[r2])
        /\ reqs[r2].res = reqs[r1].res
        /\ reqs[r2].res.status = 200

----------------------------------------------------------------------------
(* C33: a history request without period and interval *)

Omits(rq) == rq.kind = "history" /\ rq.period = NoParam /\ rq.interval = NoParam

SpellsOut(rq) ==
    rq.kind = "history" /\ rq.period = <<"1y">> /\ rq.interval = <<"1d">>

\* history requests for the same symbols that leave period and interval
\* out or ask for 1y and 1d
SameHistory(a, b) ==
    /\ Omits(a) \/ SpellsOut(a)
    /\ Omits(b) \/ SpellsOut(b)
    /\ a.symbols = b.symbols

\* the arguments of the calls a request has made, position by position
ArgsOf(rq) == [i \in DOMAIN rq.calls |-> rq.calls[i].args]

HistoryWriters(rq) ==
    { q \in Reqs : /\ reqs[q].st = "done"
                   /\ reqs[q].wroteAt # NoTime
                   /\ SameHistory(reqs[q], rq) }

LastHistoryWriter(q, rq) ==
    /\ q \in HistoryWriters(rq)
    /\ \A p \in HistoryWriters(rq) \ {q} : reqs[p].wroteAt < reqs[q].wroteAt

\* C33: a history request that leaves period and interval out calls the
\* provider, on a miss, for every symbol with a window of 365 days up to
\* the time of the request and the interval 1d, exactly as a request for the
\* same symbols with period=1y and interval=1d made at the same time does;
\* the two write one and the same entry; and, with caching enabled, the one
\* that starts less than the TTL after the other wrote the cache is answered
\* with the response of the other and makes no call.
C33_DefaultsAsSpelledOut ==
    [][ /\ \A r \in Reqs :
            (Omits(reqs'[r]) /\ reqs'[r].calls # <<>>) =>
                /\ Len(reqs'[r].calls) = N(reqs'[r])
                /\ \A i \in DOMAIN reqs'[r].calls :
                    LET args == reqs'[r].calls[i].args IN
                    /\ args.symbol = KeysOf(reqs'[r])[i]
                    /\ args.opts.interval = <<"1d">>
                    /\ args.opts.period2 - args.opts.period1 = 365 * 24 * 60 * 60
        /\ \A r1, r2 \in Reqs :
            ( /\ SameHistory(reqs'[r1], reqs'[r2])
              /\ reqs'[r1].calls # <<>> /\ reqs'[r2].calls # <<>>
              /\ reqs'[r1].calls[1].args.opts.period2
                    = reqs'[r2].calls[1].args.opts.period2 )
            => ArgsOf(reqs'[r1]) = ArgsOf(reqs'[r2])
        /\ ( \A x, y \in workload : SameHistory(x, y) )
            => Cardinality(DOMAIN cache') <= 1
        /\ \A r2 \in Reqs : (Starts(r2) /\ CACHE_ENABLED) =>
            \A r1 \in Reqs :
                ( /\ LastHistoryWriter(r1, reqs'[r2])
                  /\ now - reqs[r1].wroteAt < CACHE_TTL )
                => /\ reqs'[r2].st = "done"
                   /\ reqs'[r2].res = reqs[r1].res
                   /\ reqs'[r2].calls = <<>>
      ]_vars

\* C33, witness: a request for two symbols with period=1y and interval=1d
\* wrote the cache, and a request for the same symbols without period and
\* interval was answered with the same response without a provider call.
C33_Witness ==
    \E r1, r2 \in Reqs :
        /\ CACHE_ENABLED
        /\ SpellsOut(reqs[r1])
        /\ Omits(reqs[r2])
        /\ N(reqs[r1]) = 2
        /\ reqs[r1].symbols = reqs[r2].symbols
        /\ Fresh(reqs[r1])
        /\ reqs[r1].wroteAt # NoTime
        /\ Served(reqs[r2])
        /\ reqs[r2].res = reqs[r1].res
        /\ reqs[r2].res.status = 200

----------------------------------------------------------------------------
(* C34: the count and the availability flag of a news response *)

NewsAnswered(r) ==
    /\ reqs[r].st = "done"
    /\ reqs[r].kind = "routes/news"
    /\ reqs[r].res.status = 200

\* C34: in every 200 response of the news route, fresh or from the cache,
\* count is the length of the news array and dataAvailable.hasNews is true
\* if and only if count is greater than 0.
C34_CountIsLengthOfNews ==
    \A r \in Reqs :
        NewsAnswered(r) =>
            LET body == reqs[r].res.body IN
            /\ body.news.tag = "array"
            /\ body.count = Len(body.news.items)
            /\ body.dataAvailable.hasNews <=> body.count > 0

\* C34, witness: a news request was answered with no article and hasNews
\* false after its provider call, and a second one got the same from the
\* cache.
C34_Witness ==
    \E r1, r2 \in Reqs :
        /\ NewsAnswered(r1) /\ NewsAnswered(r2)
        /\ Fresh(reqs[r1])
        /\ reqs[r1].calls[1].value.news = Arr(<<>>)
        /\ reqs[r1].res.body.count = 0
        /\ ~reqs[r1].res.body.dataAvailable.hasNews
        /\ Served(reqs[r2])
        /\ reqs[r2].res = reqs[r1].res

\* a news response with articles, fresh and from the cache
C34_WitnessWithNews ==
    \E r1, r2 \in Reqs :
        /\ NewsAnswered(r1) /\ NewsAnswered(r2)
        /\ Fresh(reqs[r1])
        /\ reqs[r1].res.body.count = DEFAULT_NEWS_COUNT
        /\ reqs[r1].res.body.dataAvailable.hasNews
        /\ Served(reqs[r2])
        /\ reqs[r2].res = reqs[r1].res

----------------------------------------------------------------------------
(* C35: which calls of log print a line *)

\* the order of the levels, from the least verbose to the most verbose
Verbosity == <<"error", "warn", "info", "debug">>
Rank(level) == CHOOSE i \in DOMAIN Verbosity : Verbosity[i] = level

\* the level LOG_LEVEL configures: the level it names, info when it is unset
\* or names no level
Configured(env) ==
    IF \E i \in DOMAIN Verbosity : <<Verbosity[i]>> = env THEN env[1] ELSE "info"

\* the settings of LOG_LEVEL the server is running under
SettingsInForce == { x.LOG_LEVEL : x \in workload }

Logged(r) == reqs[r].st = "done" /\ reqs[r].kind = "log"

\* C35, as claimed: whatever LOG_LEVEL is, a call of log prints a line
\* exactly when the level of the message is no more verbose than the level
\* LOG_LEVEL configures (error < warn < info < debug), which is info when
\* LOG_LEVEL is unset or names no level.
C35_PrintsUpToConfiguredLevel ==
    \A r \in Reqs : Logged(r) =>
        \A e \in SettingsInForce :
            (reqs[r].line # NoLine) <=> (Rank(reqs[r].level) <= Rank(Configured(e)))

\* The same under the settings warn, info, debug, unset and verbose: holds.
C35_PrintsUpToLevelFromWarn ==
    \A r \in Reqs : Logged(r) =>
        \A e \in SettingsInForce \ {<<"error">>, <<"constructor">>} :
            (reqs[r].line # NoLine) <=> (Rank(reqs[r].level) <= Rank(Configured(e)))

----------------------------------------------------------------------------
(* C36: the default TTL in force *)

\* the TTL of the claim: the value of CACHE_TTL when it parses to a positive
\* integer, 300 in every other case
ClaimedTtl(env) ==
    LET p == ParseInt(env) IN IF ~p.nan /\ p.n > 0 THEN p.n ELSE 300

\* the settings of CACHE_TTL the server is running under
TtlInForce == { x.CACHE_TTL : x \in { y \in workload : y.kind = "config" } }

\* every entry of the store expires ttl seconds after a request wrote it
ExpiresAfter(ttl) ==
    \A k \in DOMAIN cache :
        \E r \in Reqs : /\ reqs[r].wroteAt # NoTime
                        /\ cache[k].t = reqs[r].wroteAt + ttl

\* a request has stored its response with the default TTL
Written == \E r \in Reqs : reqs[r].wroteAt # NoTime

\* C36, as claimed: whatever CACHE_TTL is set to, the default TTL that the
\* responses are stored with is positive; it is the value of CACHE_TTL when
\* that parses to a positive integer and 300 in every other case, and every
\* entry expires that many seconds after it was written.
C36_DefaultTtlPositive ==
    \A e \in TtlInForce : Written =>
        /\ CACHE_TTL > 0
        /\ CACHE_TTL = ClaimedTtl(e)
        /\ ExpiresAfter(ClaimedTtl(e))

\* The same under the settings that are not negative numbers: holds.
C36_DefaultTtlUnlessNegative ==
    \A e \in TtlInForce :
        (Written /\ ~(ParseInt(e).nan = FALSE /\ ParseInt(e).n < 0)) =>
            /\ CACHE_TTL > 0
            /\ CACHE_TTL = ClaimedTtl(e)
            /\ ExpiresAfter(ClaimedTtl(e))

----------------------------------------------------------------------------
(* C37: the responses written for one POST /mcp request *)

Posted(r) == reqs[r].kind = "mcp/post"

\* a step in which the catch clause of request r runs
Catches(r) == reqs[r].st # "caught" /\ reqs'[r].st = "caught"

\* a 500 response with a JSON-RPC error, code -32603 and id null
IsInternalError(response) ==
    /\ response.status = 500
    /\ response.body.tag = "jsonrpc"
    /\ response.body.id = 0
    /\ response.body.result.tag = "error"
    /\ response.body.result.code = -32603

\* C37: no POST /mcp request ever has two responses written; when connect
\* or handleRequest throws before a response header was sent, the catch
\* clause writes one 500 response with a JSON-RPC error (code -32603, id
\* null), the only response of the request; when the headers were already
\* sent it writes nothing.
C37_NeverTwoResponses ==
    /\ [](\A r \in Reqs : Posted(r) => Len(reqs[r].written) <= 1)
    /\ [][ \A r \in Reqs : (Catches(r) /\ reqs'[r].kind = "mcp/post") =>
            LET before == IF Posted(r) THEN reqs[r].written ELSE <<>>
                sent == Posted(r) /\ reqs[r].headersSent
            IN  IF sent
                THEN reqs'[r].written = before
                ELSE /\ Len(reqs'[r].written) = 1
                     /\ IsInternalError(reqs'[r].written[1])
      ]_vars

\* C37, witness: handleRequest threw after the transport had written the
\* response of a request, which has that one response and no other; the
\* connect of another request threw and it has the 500 response alone.
C37_Witness ==
    \E r1, r2 \in Reqs :
        /\ Posted(r1) /\ Posted(r2)
        /\ reqs[r1].st = "caught" /\ reqs[r2].st = "caught"
        /\ Len(reqs[r1].written) = 1
        /\ reqs[r1].written[1].status = 200
        /\ ~reqs[r2].connected
        /\ Len(reqs[r2].written) = 1
        /\ IsInternalError(reqs[r2].written[1])

====
